---- MODULE Spec2Model ----
(***************************************************************************)
(* Workflow engine of deep_vision: the WorkflowState record, the stage     *)
(* agents behind BaseAgent.safe_process, SimpleOrchestrator and            *)
(* ConditionalOrchestrator, the ImageEditManager primary/fallback chain    *)
(* and the in-memory task registry of backend/api/main.py.                 *)
(***************************************************************************)
EXTENDS Integers, Sequences, FiniteSets, TLC

VARIABLES
    \* ---- orchestrator runs (backend/agents/orchestrator.py) ----
    orch,         \* which driver runs: "simple", "simple_llm", "conditional", "demo"
    state,        \* the WorkflowState threaded through the agents
    pc,           \* position of the run coroutine
    idx,          \* SimpleOrchestrator loop index into self.agents (1-based)
    trace,        \* history: one record per safe_process call, in call order
    failsBefore,  \* environment: the provider fails on its first failsBefore calls
    outfile,      \* environment: the file the provider writes when it succeeds
    \* ---- ImageEditManager (backend/agents/edit_manager.py) ----
    prefer_qwen,  \* constructor argument of the manager instance
    em_pc,        \* position inside the manager method being awaited
    em_op,        \* the method invoked
    em_calls,     \* provider calls of the current invocation, with outcomes
    em_log,       \* history: summaries of the finished invocations
    em_count,     \* history: number of invocations started
    \* ---- task registry and background tasks (backend/api/main.py) ----
    tasks_db,     \* the dict task_id -> task entry
    ex,           \* per task id: the background task's position and locals
    db_updates,   \* per task id: the statuses passed to update_task_result
    \* ---- chat registry and background tasks (backend/api/chat_agent_routes.py) ----
    chat_tasks_db,  \* the dict task_id -> task entry
    chat_ex,        \* per task id: the background task's position and history
    chat_updates,   \* per task id: the calls of update_task_result
    \* ---- SimpleTaskAnalyzer (backend/agents/task_analyzer.py) ----
    sa_request,     \* the user request handed to analyze
    sa_result,      \* what analyze returned
    \* ---- status and result queries (backend/api/main.py) ----
    poll,           \* the response a client is being sent, or NoPoll
    \* ---- PromptProcessor (deep_vision/models/prompt_processor.py) ----
    pp_prompt,      \* the prompt handed to _analyze_prompt
    pp_type,        \* the editing type it returned
    \* ---- get_orchestrator (backend/agents/orchestrator.py) ----
    _orchestrator_instance,  \* the module-level instance, or NoInstance
    go_calls,       \* the use_llm_analyzer arguments of the calls so far
    go_returned,    \* the orchestrator the last call returned
    \* ---- retry_async (backend/core/utils.py) ----
    ra              \* one call of a wrapped function: arguments, position, events

orchVars == <<orch, state, pc, idx, trace, failsBefore, outfile>>

emVars == <<prefer_qwen, em_pc, em_op, em_calls, em_log, em_count>>

regVars == <<tasks_db, ex, db_updates>>

chatVars == <<chat_tasks_db, chat_ex, chat_updates>>

saVars == <<sa_request, sa_result>>

pollVars == <<poll>>

ppVars == <<pp_prompt, pp_type>>

goVars == <<_orchestrator_instance, go_calls, go_returned>>

raVars == <<ra>>

vars == <<orch, state, pc, idx, trace, failsBefore, outfile,
          prefer_qwen, em_pc, em_op, em_calls, em_log, em_count,
          tasks_db, ex, db_updates,
          chat_tasks_db, chat_ex, chat_updates,
          sa_request, sa_result, poll, pp_prompt, pp_type,
          _orchestrator_instance, go_calls, go_returned, ra>>

---------------------------------------------------------------------------
\* Bounds of the model
MaxFails == 4
MaxInvocations == 2
MaxTasks == 1
MaxChatTasks == 2
MaxRequestWords == 4

---------------------------------------------------------------------------
\* backend/core/state.py

TaskTypes == {"deblur", "inpaint", "beauty_enhance", "generate", "unknown"}

TaskStatuses == {"pending", "analyzing", "processing", "quality_check",
                 "completed", "failed"}

NoPath == "None"

InputPaths == {NoPath, "in.png", "gone.png"}

NoAnalysis == [present |-> FALSE, confidence |-> 0, failed |-> FALSE]

\* WorkflowState(task_id=..., user_request=...), all other fields default.
\* intermediate_results is flattened: errors, analysis, needs_review,
\* ir_retry_count ("retry_count" key, -1 when absent), quality_checks, model_used.
WorkflowState ==
    [ status |-> "pending", progress |-> 0,
      task_type |-> "unknown", task_type_is_enum |-> TRUE,
      input_path |-> NoPath, output_path |-> NoPath,
      retry_count |-> 0, max_retries |-> 3,
      errors |-> << >>, analysis |-> NoAnalysis, needs_review |-> FALSE,
      ir_retry_count |-> -1, quality_checks |-> << >>, model_used |-> "None" ]

\* Config.use_enum_values: a task_type passed to the constructor is stored as
\* its plain string value; the default and later attribute assignments
\* (no validate_assignment) keep the enum member.
NewWorkflowState(input, kind, byCtor) ==
    [ WorkflowState EXCEPT !.input_path = input,
                           !.task_type = kind,
                           !.task_type_is_enum = ~byCtor ]

\* Path(p).exists() for the paths of the model
Exists(p) == p = "in.png" \/ p = "out.png"

---------------------------------------------------------------------------
\* Exceptions and results of process()

NoExc == [type |-> "none", msg |-> << >>]

Ret(st) == [state |-> st, exc |-> NoExc]

Raise(st, type, msg) == [state |-> st, exc |-> [type |-> type, msg |-> msg]]

\* errors.append({"agent": ..., "error": str(e)}) of the agents: no "type" key
ErrorRecord(agent, msg) == [agent |-> agent, error |-> msg, type |-> "absent"]

---------------------------------------------------------------------------
\* backend/agents/task_analyzer.py, TaskAnalyzerAgent

\* confidence is kept in hundredths (0.5 is 50)
ConfidenceValues == {20, 50, 80}

LlmTaskTypes == {"deblur", "inpaint", "beauty_enhance", "generate", "other"}

\* what the chat completion call delivers: a parsed JSON answer, or a failure
\* of the call, of json.loads or of the formatting of the answer
LlmAnswers ==
    [ok : {TRUE}, task_type : LlmTaskTypes, confidence : ConfidenceValues]
    \cup {[ok |-> FALSE, task_type |-> "other", confidence |-> 0]}

\* task_type_mapping.get(task_type_str, TaskType.DEBLUR)
task_type_mapping(s) ==
    IF s \in {"deblur", "inpaint", "beauty_enhance", "generate"} THEN s ELSE "deblur"

\* an analyzer without the except clause: the failure leaves process
AnalyzerExceptRaises(s1) == Raise(s1, "APIError", <<"analysis failed">>)

\* TaskAnalyzerAgent.process, lines 132-142: the except clause
AnalyzerExcept(s1) ==
    Ret([s1 EXCEPT !.task_type = "deblur",
                   !.task_type_is_enum = TRUE,
                   !.analysis = [present |-> TRUE, confidence |-> 50,
                                 failed |-> TRUE],
                   !.progress = 20])

AnalyzerProcess(st, llm) ==
    LET s1 == [st EXCEPT !.status = "analyzing", !.progress = 10]
    IN  IF llm.ok
        THEN Ret([s1 EXCEPT !.task_type = task_type_mapping(llm.task_type),
                            !.task_type_is_enum = TRUE,
                            !.progress = 20,
                            !.analysis = [present |-> TRUE,
                                          confidence |-> llm.confidence,
                                          failed |-> FALSE]])
        ELSE AnalyzerExcept(s1)

---------------------------------------------------------------------------
\* backend/agents/image_worker.py, ImageWorkerAgent

ProviderOutcomes == {"ok", "raise", "no_output"}

ModelFor(kind) ==
    CASE kind = "deblur" -> "SwinIR"
      [] kind = "inpaint" -> "LaMa"
      [] kind = "beauty_enhance" -> "GFPGAN"
      [] kind = "generate" -> "Stable Diffusion XL"
      [] OTHER -> "None"

\* a worker that stores the output path before it knows the file exists
WorkerFailWithOutput(st, type, msg) ==
    Raise([st EXCEPT !.status = "failed", !.output_path = "out.png",
                     !.errors = Append(@, ErrorRecord("Image Worker", msg))],
          type, msg)

\* the except clause of process: mark FAILED, append a record, re-raise
WorkerFail(st, type, msg) ==
    Raise([st EXCEPT !.status = "failed",
                     !.errors = Append(@, ErrorRecord("Image Worker", msg))],
          type, msg)

\* a worker that starts every attempt from progress 0
StartProcessingFromZero(st) == [st EXCEPT !.status = "processing", !.progress = 0]

\* image_worker.py, lines 38-39: status PROCESSING, progress 40
StartProcessing(st) == [st EXCEPT !.status = "processing", !.progress = 40]

WorkerProcess(st, prov) ==
    LET s1 == StartProcessing(st)
        s2 == [s1 EXCEPT !.model_used = ModelFor(s1.task_type)]
    IN  IF s1.input_path = NoPath
        THEN WorkerFail(s1, "ValueError", <<"No input path provided">>)
        ELSE IF ~Exists(s1.input_path)
        THEN WorkerFail(s1, "FileNotFoundError", <<"Input file not found">>)
        ELSE IF ~s1.task_type_is_enum
        THEN WorkerFail(s1, "AttributeError", <<"'str' object has no attribute 'value'">>)
        ELSE IF s1.task_type = "unknown"
        THEN WorkerFail(s1, "ValueError", <<"Unknown task type">>)
        ELSE IF prov = "raise"
        THEN WorkerFail(s2, "ProviderError", <<"provider call failed">>)
        ELSE IF prov = "no_output"
        THEN WorkerFail(s2, "FileNotFoundError", <<"Output file was not created">>)
        ELSE Ret([s2 EXCEPT !.output_path = "out.png", !.progress = 70])

---------------------------------------------------------------------------
\* backend/agents/quality_control.py, QualityControlAgent

OutFiles == [size_ok : BOOLEAN, decodable : BOOLEAN, dims_ok : BOOLEAN,
             in_decodable : BOOLEAN, same_size : BOOLEAN, differs : BOOLEAN]

Check(name, passed) == [name |-> name, passed |-> passed]

_check_output_exists(st) ==
    Check("output_exists", st.output_path # NoPath /\ Exists(st.output_path))

\* a comparison that looks at the dimensions only
_check_comparison_size_only(f) ==
    Check("comparison", IF f.decodable /\ f.in_decodable
                        THEN f.same_size
                        ELSE TRUE)

\* an exception while opening either image passes the check
_check_comparison(f) ==
    Check("comparison", IF f.decodable /\ f.in_decodable
                        THEN f.same_size /\ f.differs
                        ELSE TRUE)

\* a battery that stops at the first check that fails
_run_checks_until_failure(st, f) ==
    LET c1 == <<_check_output_exists(st)>>
        c2 == c1 \o <<Check("file_size", f.size_ok)>>
        c3 == c2 \o <<Check("image_format", f.decodable)>>
        c4 == c3 \o <<Check("dimensions", f.dims_ok)>>
    IN  IF ~c1[1].passed THEN c1
        ELSE IF ~f.size_ok THEN c2
        ELSE IF ~f.decodable THEN c3
        ELSE IF ~f.dims_ok THEN c4
        ELSE IF st.input_path # NoPath THEN c4 \o <<_check_comparison(f)>>
        ELSE c4

\* QualityControlAgent._run_checks: the checks in the order they are stored
_run_checks(st, f) ==
    LET c1 == <<_check_output_exists(st)>>
        c3 == c1 \o <<Check("file_size", f.size_ok),
                      Check("image_format", f.decodable)>>
        c4 == c3 \o <<Check("dimensions", f.dims_ok)>>
    IN  IF ~c1[1].passed THEN c1
        ELSE IF ~f.decodable THEN c3
        ELSE IF st.input_path # NoPath THEN c4 \o <<_check_comparison(f)>>
        ELSE c4

\* an error message that lists every executed check
FailedNamesAll(checks) == [i \in 1..Len(checks) |-> checks[i].name]

RECURSIVE FailedNames(_)
\* [name for name, check in checks.items() if not check["passed"]]
FailedNames(checks) ==
    IF checks = << >> THEN << >>
    ELSE (IF checks[1].passed THEN << >> ELSE <<checks[1].name>>)
         \o FailedNames(Tail(checks))

\* a validator that passes the output without touching progress
MarkCompletedKeepProgress(st) == [st EXCEPT !.status = "completed"]

\* quality_control.py, lines 55-56: status COMPLETED, progress 100
MarkCompleted(st) == [st EXCEPT !.status = "completed", !.progress = 100]

\* a validator that announces itself with the analyzer's status
StartQualityCheckAsAnalyzing(st) ==
    [st EXCEPT !.status = "analyzing", !.progress = 80]

\* quality_control.py, lines 42-43: status QUALITY_CHECK, progress 80
StartQualityCheck(st) == [st EXCEPT !.status = "quality_check", !.progress = 80]

QualityProcess(st, f) ==
    LET s1 == StartQualityCheck(st)
        checks == _run_checks(s1, f)
        s2 == [s1 EXCEPT !.quality_checks = checks]
    IN  IF FailedNames(checks) = << >>
        THEN Ret(MarkCompleted(s2))
        ELSE Ret([s2 EXCEPT !.status = "failed",
                            !.errors = Append(@, ErrorRecord("Quality Control",
                                <<"Quality check FAILED:">> \o FailedNames(checks)))])

---------------------------------------------------------------------------
\* demo_agents.py, demo_error_handling: an agent whose process always raises

FailingProcess(st) == Raise(st, "ValueError", <<"Simulated error!">>)

---------------------------------------------------------------------------
\* backend/agents/base_agent.py, BaseAgent

AgentNames == {"Task Analyzer", "Image Worker", "Quality Control", "Test Agent"}

Process(agent, st, o) ==
    CASE agent = "Task Analyzer" -> AnalyzerProcess(st, o.llm)
      [] agent = "Image Worker" -> WorkerProcess(st, o.prov)
      [] agent = "Quality Control" -> QualityProcess(st, o.file)
      [] OTHER -> FailingProcess(st)

\* a wrapper that lets the exception of process through
safe_process_rethrow(agent, st, o) == Process(agent, st, o)

\* a wrapper that starts a new list for every record
ErrorsStartedAnew(errors) == << >>

\* base_agent.py, lines 76-77: a missing or empty list is replaced by []
ErrorsForAppend(errors) == IF errors = << >> THEN << >> ELSE errors

safe_process(agent, st, o) ==
    LET r == Process(agent, st, o)
    IN  IF r.exc = NoExc
        THEN r
        ELSE Ret([r.state EXCEPT
                    !.status = "failed",
                    !.errors = Append(ErrorsForAppend(@),
                                      [agent |-> agent, error |-> r.exc.msg,
                                       type |-> r.exc.type])])

---------------------------------------------------------------------------
\* backend/agents/orchestrator.py

Orchestrators == {"simple", "simple_llm", "conditional", "demo"}

AgentsValidatorFirst(o) ==
    IF o = "simple_llm"
    THEN <<"Task Analyzer", "Quality Control", "Image Worker">>
    ELSE <<"Quality Control", "Image Worker">>

\* SimpleOrchestrator.__init__: self.agents
Agents(o) ==
    IF o = "simple_llm"
    THEN <<"Task Analyzer", "Image Worker", "Quality Control">>
    ELSE <<"Image Worker", "Quality Control">>

\* number of safe_process calls made so far on the given agent
RECURSIVE CallsOf(_, _)
CallsOf(agent, tr) ==
    IF tr = << >> THEN 0
    ELSE (IF tr[1].agent = agent THEN 1 ELSE 0) + CallsOf(agent, Tail(tr))

\* the provider fails on its first failsBefore calls (by raising or by
\* leaving no output file) and succeeds afterwards
ProviderNow ==
    IF CallsOf("Image Worker", trace) + 1 <= failsBefore
    THEN {"raise", "no_output"}
    ELSE {"ok"}

\* the deliveries of the environment one invocation of the agent can meet
OraclesFor(agent) ==
    [ llm : IF agent = "Task Analyzer" THEN LlmAnswers
                                       ELSE {[ok |-> FALSE, task_type |-> "other", confidence |-> 0]},
      prov : IF agent = "Image Worker" THEN ProviderNow ELSE {"ok"},
      file : {outfile} ]

\* image_worker.py, lines 54-67: the calls of the client one invocation of
\* process makes, one per branch and none when the validation raised before
ProviderCalls(agent, st) ==
    IF /\ agent = "Image Worker"
       /\ st.input_path # NoPath
       /\ Exists(st.input_path)
       /\ st.task_type_is_enum
       /\ st.task_type # "unknown"
    THEN 1 ELSE 0

\* the values process assigns to state.progress, in the order of assignment
ProgressWrites(agent, st, o) ==
    CASE agent = "Task Analyzer" -> <<10, 20>>
      [] agent = "Image Worker" ->
            <<StartProcessing(st).progress>>
            \o (IF WorkerProcess(st, o.prov).exc = NoExc THEN <<70>> ELSE << >>)
      [] agent = "Quality Control" ->
            <<80>>
            \o (IF QualityProcess(st, o.file).state.status = "completed"
                THEN <<MarkCompleted(st).progress>> ELSE << >>)
      [] OTHER -> << >>

\* history record of one safe_process call: what process raised, what
\* safe_process returned, whether safe_process itself threw, and the
\* progress values assigned on the way
\* the values state.status is assigned during one safe_process call
StatusWrites(agent, st, o) ==
    LET r == Process(agent, st, o)
        first == CASE agent = "Task Analyzer" -> <<"analyzing">>
                   [] agent = "Image Worker" -> <<StartProcessing(st).status>>
                   [] agent = "Quality Control" -> <<StartQualityCheck(st).status>>
                   [] OTHER -> << >>
    IN  first
        \o (IF first = << >> \/ r.state.status # first[1]
            THEN <<r.state.status>> ELSE << >>)
        \o (IF r.exc # NoExc THEN <<"failed">> ELSE << >>)

Called(agent, st, o) ==
    [ agent |-> agent,
      entry |-> st.status,
      statuses |-> StatusWrites(agent, st, o),
      llm_failed |-> (agent = "Task Analyzer" /\ ~o.llm.ok),
      provider_calls |-> ProviderCalls(agent, st),
      progress |-> ProgressWrites(agent, st, o),
      exc |-> Process(agent, st, o).exc,
      ret |-> safe_process(agent, st, o).state,
      threw |-> safe_process(agent, st, o).exc # NoExc ]

\* a loop that never leaves early
SimpleNeverBreaks(status) == FALSE

\* SimpleOrchestrator.run, line 65: leave the loop on a failed stage
SimpleBreaks(status) == status = "failed"

\* SimpleOrchestrator.run up to the loop: the log line reads state.task_type.value
SimpleStart ==
    /\ pc = "start"
    /\ orch \in {"simple", "simple_llm"}
    /\ pc' = IF state.task_type_is_enum THEN "loop" ELSE "raised"
    /\ idx' = 1
    /\ UNCHANGED <<orch, state, trace, failsBefore, outfile, emVars, regVars, chatVars, saVars, pollVars, ppVars, goVars, raVars>>

\* one iteration of the loop over self.agents, and the return after the loop
SimpleStage ==
    /\ pc = "loop"
    /\ orch \in {"simple", "simple_llm"}
    /\ \E o \in OraclesFor(Agents(orch)[idx]) :
         LET agent == Agents(orch)[idx]
             r == safe_process(agent, state, o)
         IN  /\ trace' = Append(trace, Called(agent, state, o))
             /\ IF r.exc = NoExc
                THEN /\ state' = r.state
                     /\ IF SimpleBreaks(r.state.status) \/ idx = Len(Agents(orch))
                        THEN pc' = "done" /\ idx' = idx
                        ELSE pc' = "loop" /\ idx' = idx + 1
                ELSE /\ state' = [r.state EXCEPT
                                    !.status = "failed",
                                    !.errors = Append(@, ErrorRecord(agent, r.exc.msg))]
                     /\ pc' = "done"
                     /\ idx' = idx
    /\ UNCHANGED <<orch, failsBefore, outfile, emVars, regVars, chatVars, saVars, pollVars, ppVars, goVars, raVars>>

\* ConditionalOrchestrator.run, line 123
Confidence(st) == IF st.analysis.present THEN st.analysis.confidence ELSE 0

\* a review flag raised at the threshold as well
LowConfidenceInclusive(st) == Confidence(st) <= 50

\* ConditionalOrchestrator.run, line 125: if confidence < 0.5
LowConfidence(st) == Confidence(st) < 50

\* ConditionalOrchestrator.run, line 134
IrRetryCount(st) == IF st.ir_retry_count = -1 THEN 0 ELSE st.ir_retry_count

\* ConditionalOrchestrator.run, line 135
RetryAllowed(retry_count) == retry_count < 3

\* steps 1 and 2: analyze, then flag a low confidence
CondAnalyze ==
    /\ pc = "start"
    /\ orch = "conditional"
    /\ \E o \in OraclesFor("Task Analyzer") :
         LET r == safe_process("Task Analyzer", state, o)
         IN  /\ trace' = Append(trace, Called("Task Analyzer", state, o))
             /\ IF r.exc # NoExc
                THEN state' = r.state /\ pc' = "raised"
                ELSE IF r.state.status = "failed"
                THEN state' = r.state /\ pc' = "done"
                ELSE /\ state' = IF LowConfidence(r.state)
                                 THEN [r.state EXCEPT !.needs_review = TRUE]
                                 ELSE r.state
                     /\ pc' = "worker"
    /\ UNCHANGED <<orch, idx, failsBefore, outfile, emVars, regVars, chatVars, saVars, pollVars, ppVars, goVars, raVars>>

\* step 3, first call of the worker, and the bookkeeping before the retry
CondWorker ==
    /\ pc = "worker"
    /\ \E o \in OraclesFor("Image Worker") :
         LET r == safe_process("Image Worker", state, o)
         IN  /\ trace' = Append(trace, Called("Image Worker", state, o))
             /\ IF r.exc # NoExc
                THEN state' = r.state /\ pc' = "raised"
                ELSE IF r.state.status = "failed"
                THEN IF RetryAllowed(IrRetryCount(r.state))
                     THEN /\ state' = [r.state EXCEPT
                                         !.ir_retry_count = IrRetryCount(r.state) + 1,
                                         !.status = "processing"]
                          /\ pc' = "retry"
                     ELSE state' = r.state /\ pc' = "done"
                ELSE state' = r.state /\ pc' = "quality"
    /\ UNCHANGED <<orch, idx, failsBefore, outfile, emVars, regVars, chatVars, saVars, pollVars, ppVars, goVars, raVars>>

\* step 3, the second call of the worker (line 139) and the check of line 141
CondRetry ==
    /\ pc = "retry"
    /\ \E o \in OraclesFor("Image Worker") :
         LET r == safe_process("Image Worker", state, o)
         IN  /\ trace' = Append(trace, Called("Image Worker", state, o))
             /\ state' = r.state
             /\ pc' = IF r.exc # NoExc THEN "raised"
                      ELSE IF r.state.status = "failed" THEN "done"
                      ELSE "quality"
    /\ UNCHANGED <<orch, idx, failsBefore, outfile, emVars, regVars, chatVars, saVars, pollVars, ppVars, goVars, raVars>>

\* step 4: quality check and return
CondQuality ==
    /\ pc = "quality"
    /\ \E o \in OraclesFor("Quality Control") :
         LET r == safe_process("Quality Control", state, o)
         IN  /\ trace' = Append(trace, Called("Quality Control", state, o))
             /\ state' = r.state
             /\ pc' = IF r.exc # NoExc THEN "raised" ELSE "done"
    /\ UNCHANGED <<orch, idx, failsBefore, outfile, emVars, regVars, chatVars, saVars, pollVars, ppVars, goVars, raVars>>

\* demo_error_handling: FailingAgent("Test Agent").safe_process(state)
DemoRun ==
    /\ pc = "start"
    /\ orch = "demo"
    /\ \E o \in OraclesFor("Test Agent") :
         LET r == safe_process("Test Agent", state, o)
         IN  /\ trace' = Append(trace, Called("Test Agent", state, o))
             /\ state' = r.state
             /\ pc' = IF r.exc # NoExc THEN "raised" ELSE "done"
    /\ UNCHANGED <<orch, idx, failsBefore, outfile, emVars, regVars, chatVars, saVars, pollVars, ppVars, goVars, raVars>>

\* the states a caller hands to run: input path and task type as given
InitialStates ==
    { NewWorkflowState(i, k, c) : i \in InputPaths, k \in TaskTypes, c \in BOOLEAN }

\* task ids handed out by generate_task_id
TaskIds == 1..MaxTasks

\* the background task of an id that was never handed out
NoExecutor == [pc |-> "none", kind |-> "none", user |-> 0,
               hf |-> "none", hf_text |-> << >>, fallback_called |-> FALSE,
               spawned |-> 0, returned |-> "none"]

\* an executor is suspended in the await of a provider call
ProviderInFlight(t) ==
    ex[t].pc \in {"await_provider", "await_hf", "await_imagen", "await_download"}

\* how the awaited provider coroutine makes its network call: the Replicate
\* wrapper calls client.run and requests.get in the coroutine itself, the
\* Qwen, Hugging Face and Imagen agents hand the call to run_in_executor and
\* the download uses the asynchronous HTTP client
Dispatch(kind) == IF kind = "enhance" THEN "inline" ELSE "run_in_executor"

\* the event loop is inside a coroutine that never suspends
LoopBusy ==
    \E t \in DOMAIN ex : ProviderInFlight(t) /\ Dispatch(ex[t].kind) = "inline"

\* the event loop can run the handler or the continuation for task u
LoopFree(u) ==
    \A t \in DOMAIN ex \ {u} :
        ~(ProviderInFlight(t) /\ Dispatch(ex[t].kind) = "inline")

\* tasks_db: dict = {} and no background task scheduled
RegIdle ==
    /\ tasks_db = << >>
    /\ ex = [t \in TaskIds |-> NoExecutor]
    /\ db_updates = [t \in TaskIds |-> << >>]

\* task ids handed out by generate_task_id to send_message
ChatTaskIds == 1..MaxChatTasks

\* the background task of a chat task id that was never handed out
NoChatExecutor == [pc |-> "none", kind |-> "none", processed |-> FALSE,
                   writes |-> << >>]

\* chat_tasks_db = {} and no background task scheduled
ChatIdle ==
    /\ chat_tasks_db = << >>
    /\ chat_ex = [t \in ChatTaskIds |-> NoChatExecutor]
    /\ chat_updates = [t \in ChatTaskIds |-> << >>]

\* analyze has not returned
NoResult == [task_type |-> "none", confidence |-> 0, matched |-> 0,
             scores |-> << >>]

\* analyze is not called
SAIdle ==
    /\ sa_request = {}
    /\ sa_result = NoResult

\* no query is being answered
NoPoll == [kind |-> "none"]

PollIdle == poll = NoPoll

\* no prompt is being analysed
NoType == "<none>"

PPIdle ==
    /\ pp_prompt = << >>
    /\ pp_type = NoType

\* _orchestrator_instance = None
NoInstance == [agents |-> << >>]

\* the module is imported and get_orchestrator was not called
GOIdle ==
    /\ _orchestrator_instance = NoInstance
    /\ go_calls = << >>
    /\ go_returned = NoInstance

\* no wrapped function is being called
NoRetry == [pc |-> "idle"]

RAIdle == ra = NoRetry

\* no manager invocation under way
EMIdle ==
    /\ prefer_qwen = TRUE
    /\ em_pc = "idle"
    /\ em_op = "none"
    /\ em_calls = << >>
    /\ em_log = {}
    /\ em_count = 0

Init ==
    /\ orch \in Orchestrators
    /\ state \in InitialStates
    /\ pc = "start"
    /\ idx = 1
    /\ trace = << >>
    /\ failsBefore \in 0..MaxFails
    /\ outfile \in OutFiles
    /\ EMIdle
    /\ RegIdle
    /\ ChatIdle
    /\ SAIdle
    /\ PollIdle
    /\ PPIdle
    /\ GOIdle
    /\ RAIdle

Next ==
    \/ SimpleStart
    \/ SimpleStage
    \/ CondAnalyze
    \/ CondWorker
    \/ CondRetry
    \/ CondQuality
    \/ DemoRun

Spec == Init /\ [][Next]_vars

---------------------------------------------------------------------------
\* Properties of the orchestrator runs (specification Spec)

Sequential == orch \in {"simple", "simple_llm"}

\* C1: in SimpleOrchestrator.run a stage that returns with status FAILED is
\* the last stage invoked, and the run returns that state as final.
C1_StageShortCircuit ==
    Sequential =>
        \A i \in 1..Len(trace) :
            trace[i].ret.status = "failed" =>
                /\ i = Len(trace)
                /\ pc = "done"
                /\ state = trace[i].ret

\* a sequential run with the analyzer whose executor failed: the validator
\* was never invoked
C1_Witness ==
    /\ orch = "simple_llm"
    /\ pc = "done"
    /\ Len(trace) = 2
    /\ trace[2].agent = "Image Worker"
    /\ trace[2].ret.status = "failed"
    /\ CallsOf("Quality Control", trace) = 0

\* the output file passes every check the validator would run on it
ValidatorWouldPass ==
    FailedNames(_run_checks([state EXCEPT !.output_path = "out.png"], outfile)) = << >>

\* C2: in ConditionalOrchestrator.run, an executor that fails on its first k
\* attempts (1 <= k <= max_retries) and then succeeds, with an output the
\* validator accepts, ends COMPLETED with retry_count = k.
C2_RetryUntilSuccess ==
    ( /\ orch = "conditional"
      /\ pc = "done"
      /\ state.input_path = "in.png"
      /\ failsBefore \in 1..state.max_retries
      /\ ValidatorWouldPass )
    => /\ state.status = "completed"
       /\ IrRetryCount(state) = failsBefore

\* C3: in ConditionalOrchestrator.run, an executor that fails on every attempt
\* is invoked max_retries + 1 times, retry_count ends at max_retries, and the
\* run ends FAILED without the validator.
C3_RetriesExhausted ==
    ( /\ orch = "conditional"
      /\ pc = "done"
      /\ (failsBefore > state.max_retries \/ state.input_path # "in.png") )
    => /\ CallsOf("Image Worker", trace) = state.max_retries + 1
       /\ IrRetryCount(state) = state.max_retries
       /\ state.status = "failed"
       /\ CallsOf("Quality Control", trace) = 0

RECURSIVE ProgressHistory(_)
\* every value state.progress has had, from construction on
ProgressHistory(tr) ==
    IF tr = << >> THEN <<WorkflowState.progress>>
    ELSE ProgressHistory(SubSeq(tr, 1, Len(tr) - 1)) \o tr[Len(tr)].progress

NonDecreasing(seq) == \A i \in 1..(Len(seq) - 1) : seq[i] <= seq[i + 1]

\* C11: across all assignments the Analyzer, the Executor (retry attempts
\* included) and the Validator make to state.progress during a run of either
\* orchestrator, progress never decreases, and the state holds the last
\* value assigned.
C11_ProgressMonotonic ==
    orch \in {"simple", "simple_llm", "conditional"} =>
        /\ NonDecreasing(ProgressHistory(trace))
        /\ state.progress = ProgressHistory(trace)[Len(ProgressHistory(trace))]

\* a conditional run through analysis, a failed attempt, a successful retry
\* and validation
C11_Witness ==
    /\ orch = "conditional"
    /\ pc = "done"
    /\ CallsOf("Image Worker", trace) = 2
    /\ state.status = "completed"
    /\ ProgressHistory(trace) = <<0, 10, 20, 40, 40, 70, 80, 100>>

\* C16: the state an orchestrator returns has progress 100 and an output
\* path when its status is COMPLETED, and at least one error record when its
\* status is FAILED.
C16_ReturnedStateConsistent ==
    (orch \in {"simple", "simple_llm", "conditional"} /\ pc = "done") =>
        /\ state.status = "completed" =>
              (state.progress = 100 /\ state.output_path # NoPath)
        /\ state.status = "failed" => state.errors # << >>

\* a returned COMPLETED state
C16_Witness ==
    /\ orch = "simple_llm"
    /\ pc = "done"
    /\ state.status = "completed"
    /\ state.output_path = "out.png"
    /\ state.errors = << >>

\* C17: when the chat completion call or the parsing of its answer fails,
\* the analyzer does not raise and does not set FAILED; it sets the task type
\* to DEBLUR and the confidence to 0.5, records the failure in the analysis
\* entry, and the run goes on to the worker.
C17_AnalysisFailureRecoverable ==
    \A i \in 1..Len(trace) :
        trace[i].llm_failed =>
            /\ trace[i].exc = NoExc
            /\ ~trace[i].threw
            /\ trace[i].ret.status = "analyzing"
            /\ trace[i].ret.task_type = "deblur"
            /\ trace[i].ret.analysis = [present |-> TRUE, confidence |-> 50,
                                        failed |-> TRUE]
            /\ ~trace[i].ret.needs_review
            /\ IF i < Len(trace)
               THEN trace[i + 1].agent = "Image Worker"
               ELSE pc \in {"loop", "worker"}

\* a conditional run whose analysis failed and whose worker was called next
C17_Witness ==
    /\ orch = "conditional"
    /\ Len(trace) >= 2
    /\ trace[1].llm_failed
    /\ trace[2].agent = "Image Worker"
    /\ state.analysis.failed

\* C19: with an input path that names no file, every call of the worker,
\* the first and the retries, fails with FileNotFoundError before a provider
\* is called, and the run ends with status FAILED and no output path.
C19_MissingInputFails ==
    (orch \in {"simple", "simple_llm", "conditional"}
        /\ state.input_path = "gone.png") =>
        /\ \A i \in 1..Len(trace) :
              trace[i].agent = "Image Worker" =>
                  /\ trace[i].exc.type = "FileNotFoundError"
                  /\ trace[i].provider_calls = 0
        /\ state.output_path = NoPath
        /\ pc \in {"done", "raised"} => (pc = "done" /\ state.status = "failed")

\* C20: the output path is set only once a call of the worker has succeeded;
\* a successful call sets the output path and progress 70; one call of the
\* worker makes at most one provider call.
C20_OutputOnlyAfterSuccess ==
    orch \in {"simple", "simple_llm", "conditional"} =>
        /\ state.output_path # NoPath =>
              \E i \in 1..Len(trace) :
                  trace[i].agent = "Image Worker" /\ trace[i].exc = NoExc
        /\ \A i \in 1..Len(trace) :
              /\ trace[i].provider_calls <= 1
              /\ trace[i].agent = "Image Worker" =>
                    /\ trace[i].ret.output_path # NoPath => trace[i].exc = NoExc
                    /\ trace[i].exc = NoExc =>
                          /\ trace[i].ret.output_path = "out.png"
                          /\ trace[i].ret.progress = 70
                          /\ trace[i].provider_calls = 1

\* a failed attempt that left no output path, then a successful retry
C20_Witness ==
    /\ orch = "conditional"
    /\ Len(trace) = 3
    /\ trace[2].agent = "Image Worker" /\ trace[2].exc # NoExc
    /\ trace[2].provider_calls = 1 /\ trace[2].ret.output_path = NoPath
    /\ trace[3].agent = "Image Worker" /\ trace[3].exc = NoExc
    /\ state.output_path = "out.png"
    /\ state.progress = 70

\* the output file holds the bytes of the input: large enough, decodable,
\* at least 32x32, same dimensions, no byte differs
IdenticalToInput ==
    outfile = [size_ok |-> TRUE, decodable |-> TRUE, dims_ok |-> TRUE,
               in_decodable |-> TRUE, same_size |-> TRUE, differs |-> FALSE]

\* C23: when the output file is byte-identical to the input, the validator's
\* comparison check fails and every other check passes, and the run ends
\* FAILED with an error naming the comparison check only.
C23_UnprocessedOutputFails ==
    (orch \in {"simple", "simple_llm", "conditional"} /\ IdenticalToInput
        /\ Len(trace) > 0 /\ trace[Len(trace)].agent = "Quality Control") =>
        /\ pc = "done"
        /\ state.status = "failed"
        /\ Len(state.quality_checks) = 5
        /\ \A i \in 1..5 :
              state.quality_checks[i].passed
                  <=> state.quality_checks[i].name # "comparison"
        /\ state.errors[Len(state.errors)] =
              ErrorRecord("Quality Control",
                          <<"Quality check FAILED:", "comparison">>)

\* a sequential run whose worker returned the input unchanged
C23_Witness ==
    /\ orch = "simple"
    /\ IdenticalToInput
    /\ pc = "done"
    /\ Len(trace) = 2
    /\ trace[2].agent = "Quality Control"
    /\ state.status = "failed"
    /\ state.progress = 80

\* C24: in a conditional run, once the analyzer has returned, needs_review
\* is true if and only if the analysis confidence is below 0.5, and in both
\* cases the next stage called is the worker.
C24_LowConfidenceAdvisory ==
    (orch = "conditional" /\ Len(trace) >= 1) =>
        /\ state.needs_review <=> trace[1].ret.analysis.confidence < 50
        /\ trace[1].ret.status # "failed"
        /\ IF Len(trace) = 1 THEN pc = "worker"
           ELSE trace[2].agent = "Image Worker"

\* a low-confidence analysis flagged for review, the worker called after it
C24_Witness ==
    /\ orch = "conditional"
    /\ Len(trace) = 2
    /\ trace[1].ret.analysis.confidence = 20
    /\ state.needs_review
    /\ trace[2].agent = "Image Worker"

\* position of a stage in the pipeline
StageRank(agent) ==
    CASE agent = "Task Analyzer" -> 1
      [] agent = "Image Worker" -> 2
      [] agent = "Quality Control" -> 3
      [] OTHER -> 0

\* C30: within one run the stages are called one after the other, never out
\* of the order Analyzer, Executor, Validator; the Analyzer and the Validator
\* are called at most once, and the Validator is called only directly after
\* an Executor attempt that returned without raising and without leaving
\* the status FAILED; a stage is called only when the previous one has returned
C30_StagesStrictlyOrdered ==
    orch # "demo" =>
        /\ \A i, j \in 1..Len(trace) :
              i < j =>
                /\ StageRank(trace[i].agent) <= StageRank(trace[j].agent)
                /\ StageRank(trace[i].agent) = StageRank(trace[j].agent) =>
                      trace[i].agent = "Image Worker"
                /\ ~trace[i].threw
        /\ \A j \in 1..Len(trace) :
              /\ StageRank(trace[j].agent) > 0
              /\ trace[j].agent = "Quality Control" =>
                    /\ j > 1
                    /\ trace[j - 1].agent = "Image Worker"
                    /\ ~trace[j - 1].threw
                    /\ trace[j - 1].ret.status # "failed"

\* a conditional run whose first executor attempt failed and whose second
\* attempt succeeded, followed by the validator
C30_Witness ==
    /\ orch = "conditional"
    /\ Len(trace) = 4
    /\ trace[1].agent = "Task Analyzer"
    /\ trace[2].agent = "Image Worker"
    /\ trace[2].ret.status = "failed"
    /\ trace[3].agent = "Image Worker"
    /\ trace[3].ret.status # "failed"
    /\ trace[4].agent = "Quality Control"

RECURSIVE StatusHistory(_)
\* every value state.status has had up to the return of the last call
StatusHistory(tr) ==
    IF tr = << >> THEN <<WorkflowState.status>>
    ELSE StatusHistory(SubSeq(tr, 1, Len(tr) - 1))
         \o <<tr[Len(tr)].entry>> \o tr[Len(tr)].statuses

\* position of a status in the life of a task
StatusRank(status) ==
    CASE status = "pending" -> 0
      [] status = "analyzing" -> 1
      [] status = "processing" -> 2
      [] status = "quality_check" -> 3
      [] OTHER -> 4

Forward(a, b) == a = b \/ StatusRank(a) < StatusRank(b)

\* C31: within a run the status only moves forward through pending,
\* analyzing, processing, quality_check and then completed or failed; the
\* only other transition is the reset from failed to processing that the
\* conditional orchestrator makes before a retry, at most max_retries times
C31_StatusMovesForward ==
    orch \in {"simple", "simple_llm", "conditional"} =>
        LET h == StatusHistory(trace) \o <<state.status>>
            back == { i \in 1..(Len(h) - 1) : ~Forward(h[i], h[i + 1]) }
        IN  /\ \A i \in back :
                  /\ orch = "conditional"
                  /\ h[i] = "failed"
                  /\ h[i + 1] = "processing"
            /\ Cardinality(back) <= state.max_retries

\* a conditional run that was reset for a retry and ended completed
C31_Witness ==
    /\ orch = "conditional"
    /\ pc = "done"
    /\ state.status = "completed"
    /\ \E i \in 1..(Len(StatusHistory(trace)) - 1) :
          /\ StatusHistory(trace)[i] = "failed"
          /\ StatusHistory(trace)[i + 1] = "processing"

\* seq starts with the records of prefix, in the same order
IsPrefix(prefix, seq) ==
    /\ Len(prefix) <= Len(seq)
    /\ \A i \in 1..Len(prefix) : seq[i] = prefix[i]

\* C33: the errors list is append-only over a run: every call of a stage
\* through safe_process and every step of the orchestrator leaves the records
\* written earlier in place and in order, and only adds records after them
C33_ErrorsAppendOnly ==
    [][ /\ IsPrefix(state.errors, state'.errors)
        /\ Len(trace') > Len(trace) =>
              /\ IsPrefix(trace'[Len(trace')].ret.errors, state'.errors)
              /\ IsPrefix(state.errors, trace'[Len(trace')].ret.errors) ]_vars

\* a conditional run whose second failed attempt added its records after
\* those of the first
C33_Witness ==
    /\ orch = "conditional"
    /\ Len(trace) = 3
    /\ Len(trace[2].ret.errors) = 2
    /\ Len(state.errors) = 4
    /\ IsPrefix(trace[2].ret.errors, state.errors)

RECURSIVE FailedAttempts(_)
\* the agents of the calls that left the status FAILED, in call order
FailedAttempts(tr) ==
    IF tr = << >> THEN << >>
    ELSE (IF tr[1].ret.status = "failed" THEN <<tr[1].agent>> ELSE << >>)
         \o FailedAttempts(Tail(tr))

\* C35: every failed stage attempt contributes exactly one record: the
\* errors list holds as many records as stage attempts have failed, in the
\* order of the failures, each naming the stage that failed
C35_OneRecordPerFailure ==
    (orch \in {"simple", "simple_llm", "conditional"} /\ pc # "start") =>
        /\ Len(state.errors) = Len(FailedAttempts(trace))
        /\ \A k \in 1..Len(state.errors) :
              state.errors[k].agent = FailedAttempts(trace)[k]

\* C8: safe_process never throws; when process raised, the returned state is
\* FAILED and the last record of its errors list carries the agent name, the
\* message and the exception type.
C8_SafeProcessCaptures ==
    \A i \in 1..Len(trace) :
        /\ ~trace[i].threw
        /\ trace[i].exc # NoExc =>
              /\ trace[i].ret.status = "failed"
              /\ trace[i].ret.errors # << >>
              /\ trace[i].ret.errors[Len(trace[i].ret.errors)] =
                    [ agent |-> trace[i].agent,
                      error |-> trace[i].exc.msg,
                      type |-> trace[i].exc.type ]
              /\ trace[i].exc.type \notin {"none", "absent"}

\* the demo's failing agent went through safe_process
C8_Witness ==
    /\ orch = "demo"
    /\ pc = "done"
    /\ Len(trace) = 1
    /\ trace[1].exc.type = "ValueError"
    /\ state.status = "failed"
    /\ Len(state.errors) = 1

\* C9: neither orchestrator raises to its caller, and a returned state is
\* COMPLETED or FAILED.
C9_RunNeverRaises ==
    orch \in {"simple", "simple_llm", "conditional"} =>
        /\ pc # "raised"
        /\ pc = "done" => state.status \in {"completed", "failed"}

---------------------------------------------------------------------------
\* backend/agents/edit_manager.py, ImageEditManager

\* the six methods of the manager; all have the same body
EMOperations == {"edit_image", "deblur", "remove_object", "beauty_enhance",
                 "style_transfer", "upscale_and_enhance"}

\* a provider call returns success, returns success=false, or raises
CallOutcomes == {"ok", "fail", "raise"}

\* ImageEditManager.__init__
primary_agent == IF prefer_qwen THEN "qwen_edit_agent" ELSE "nano_banana_agent"

fallback_agent == IF prefer_qwen THEN "nano_banana_agent" ELSE "qwen_edit_agent"

\* what the caller of the manager gets: the dict a provider returned, or the
\* exception a provider raised
Returned(provider, outcome) ==
    [kind |-> "result", success |-> (outcome = "ok"), by |-> provider]

Propagated(provider) == [kind |-> "raised", success |-> FALSE, by |-> provider]

Summary(calls, delivered) ==
    [op |-> em_op, calls |-> calls, delivered |-> delivered]

\* the invocation ends: back to the caller
EMFinish(calls, delivered) ==
    /\ em_pc' = "idle"
    /\ em_calls' = calls
    /\ em_log' = em_log \cup {Summary(calls, delivered)}

\* a caller awaits image_edit_manager.<op>(...)
EMInvoke ==
    /\ em_pc = "idle"
    /\ em_count < MaxInvocations
    /\ \E op \in EMOperations : em_op' = op
    /\ em_pc' = "primary"
    /\ em_calls' = << >>
    /\ em_count' = em_count + 1
    /\ UNCHANGED <<prefer_qwen, em_log, orchVars, regVars, chatVars, saVars, pollVars, ppVars, goVars, raVars>>

\* try: result = await self.primary_agent.<op>(...)
EMPrimary ==
    /\ em_pc = "primary"
    /\ \E o \in CallOutcomes :
         LET calls == Append(em_calls, [provider |-> primary_agent, outcome |-> o])
         IN  CASE o = "ok" -> EMFinish(calls, Returned(primary_agent, o))
               [] o = "fail" -> /\ em_pc' = "fallback_in_try"
                                /\ em_calls' = calls
                                /\ em_log' = em_log
               [] o = "raise" -> /\ em_pc' = "fallback_in_except"
                                 /\ em_calls' = calls
                                 /\ em_log' = em_log
    /\ UNCHANGED <<prefer_qwen, em_op, em_count, orchVars, regVars, chatVars, saVars, pollVars, ppVars, goVars, raVars>>

\* return await self.fallback_agent.<op>(...), still inside the try block:
\* an exception of the fallback is caught by the except clause
EMFallbackInTry ==
    /\ em_pc = "fallback_in_try"
    /\ \E o \in CallOutcomes :
         LET calls == Append(em_calls, [provider |-> fallback_agent, outcome |-> o])
         IN  IF o = "raise"
             THEN /\ em_pc' = "fallback_in_except"
                  /\ em_calls' = calls
                  /\ em_log' = em_log
             ELSE EMFinish(calls, Returned(fallback_agent, o))
    /\ UNCHANGED <<prefer_qwen, em_op, em_count, orchVars, regVars, chatVars, saVars, pollVars, ppVars, goVars, raVars>>

\* except Exception: return await self.fallback_agent.<op>(...)
EMFallbackInExcept ==
    /\ em_pc = "fallback_in_except"
    /\ \E o \in CallOutcomes :
         LET calls == Append(em_calls, [provider |-> fallback_agent, outcome |-> o])
         IN  IF o = "raise"
             THEN EMFinish(calls, Propagated(fallback_agent))
             ELSE EMFinish(calls, Returned(fallback_agent, o))
    /\ UNCHANGED <<prefer_qwen, em_op, em_count, orchVars, regVars, chatVars, saVars, pollVars, ppVars, goVars, raVars>>

\* no orchestrator run under way
OrchOff ==
    /\ orch = "demo"
    /\ state = WorkflowState
    /\ pc = "off"
    /\ idx = 1
    /\ trace = << >>
    /\ failsBefore = 0
    /\ outfile = [size_ok |-> TRUE, decodable |-> TRUE, dims_ok |-> TRUE,
                  in_decodable |-> TRUE, same_size |-> TRUE, differs |-> TRUE]

InitEM ==
    /\ OrchOff
    /\ prefer_qwen \in BOOLEAN
    /\ em_pc = "idle"
    /\ em_op = "none"
    /\ em_calls = << >>
    /\ em_log = {}
    /\ em_count = 0
    /\ RegIdle
    /\ ChatIdle
    /\ SAIdle
    /\ PollIdle
    /\ PPIdle
    /\ GOIdle
    /\ RAIdle

NextEM ==
    \/ EMInvoke
    \/ EMPrimary
    \/ EMFallbackInTry
    \/ EMFallbackInExcept

SpecEM == InitEM /\ [][NextEM]_vars

---------------------------------------------------------------------------
\* Properties of the manager (specification SpecEM)

\* the providers called, in order
Providers(calls) == [i \in 1..Len(calls) |-> calls[i].provider]

TimesCalled(provider, calls) ==
    Cardinality({i \in 1..Len(calls) : calls[i].provider = provider})

\* C4: one invocation makes at most 2 provider calls, none twice on the same
\* provider, and when the primary fails and the fallback succeeds the caller
\* gets the fallback's result.
C4_AtMostOneCallEach ==
    /\ Len(em_calls) <= 2
    /\ TimesCalled(primary_agent, em_calls) <= 1
    /\ TimesCalled(fallback_agent, em_calls) <= 1
    /\ \A r \in em_log :
          ( /\ Len(r.calls) >= 2
            /\ r.calls[1].outcome # "ok"
            /\ r.calls[2].outcome = "ok" )
          => r.delivered = Returned(fallback_agent, "ok")

\* C5: two invocations of the same method whose primary failed, one by
\* raising and one by returning success=false, and whose fallback behaved the
\* same, made the same provider calls and delivered the same outcome.
C5_RaiseSameAsUnsuccessful ==
    \A r1, r2 \in em_log :
        ( /\ r1.op = r2.op
          /\ r1.calls[1].outcome = "raise"
          /\ r2.calls[1].outcome = "fail"
          /\ r1.calls[2].outcome = r2.calls[2].outcome )
        => /\ Providers(r1.calls) = Providers(r2.calls)
           /\ r1.delivered = r2.delivered

\* C6: when every provider call of an invocation failed, the caller gets an
\* unsuccessful result carrying the last provider's error, not an exception.
C6_LastErrorReturned ==
    \A r \in em_log :
        (\A i \in 1..Len(r.calls) : r.calls[i].outcome # "ok")
        => r.delivered = Returned(r.calls[Len(r.calls)].provider, "fail")

---------------------------------------------------------------------------
\* backend/api/main.py: the task registry tasks_db and its background tasks

TaskKinds == {"enhance", "generate", "fast_edit", "fusion_edit"}

\* user_id of the request; 0 stands for None (anonymous)
Users == {0, 1}

\* the "error" key is not in the entry
NoError == <<"<unset>">>

NewEntryProcessing(kind) ==
    [ task_type |-> kind, status |-> "processing", progress |-> 10,
      result_path |-> "None", error |-> NoError, current_agent |-> "None" ]

\* the task_entry dict the endpoints store
NewEntry(kind) ==
    [ task_type |-> kind, status |-> "pending", progress |-> 0,
      result_path |-> "None", error |-> NoError, current_agent |-> "None" ]

\* error messages are sequences of words of a small vocabulary
Words == {"Quota", "exceeded", "RuntimeError", "timeout"}

ErrorTexts == {<< >>} \cup {<<w>> : w \in Words}

\* str.lower() on the vocabulary
Lower(w) ==
    CASE w = "Quota" -> "quota"
      [] w = "RuntimeError" -> "runtimeerror"
      [] OTHER -> w

\* kw in w, for lower-cased words of the vocabulary
Within(kw, w) == kw = w \/ (kw = "runtime" /\ w = "runtimeerror")

\* process_generation_task, line 279
IsQuotaError(text) ==
    \E i \in 1..Len(text) :
        \E kw \in {"quota", "exceeded", "runtime"} : Within(kw, Lower(text[i]))

\* a fallback on every failure of the primary
FallbackOnAnyFailure(kind, text) == kind # "ok"

\* process_generation_task, lines 270-279: the primary raised, or returned an
\* unsuccessful result (turned into an exception), and the message names a quota
FallbackTriggered(kind, text) == kind # "ok" /\ IsQuotaError(text)

\* what generate_image of a generation agent delivers: a successful result
\* whose output_path is a URL, an existing local file or neither; an
\* unsuccessful result with its error; or an exception with its message
GenResults ==
    [kind : {"ok"}, src : {"url", "local", "missing"}, text : {<< >>}]
    \cup [kind : {"fail", "raise"}, src : {"none"}, text : ErrorTexts]

\* SessionLocal() and update_task_result: both work, the session cannot be
\* opened, or the update raises
DbOutcomes == {"ok", "session_error", "update_error"}

\* an except clause that records the error but leaves the status alone
FailEntryKeepStatus(db, t, text) == [db EXCEPT ![t].error = text]

\* tasks_db[task_id]["status"] = "failed"; tasks_db[task_id]["error"] = str(e)
FailEntry(db, t, text) == [db EXCEPT ![t].status = "failed", ![t].error = text]

CompleteEntryStatusOnly(db, t) == [db EXCEPT ![t].status = "completed"]

CompleteEntry(db, t) ==
    [db EXCEPT ![t].status = "completed", ![t].progress = 100,
               ![t].result_path = "result.png"]

\* an except clause that marks every entry of the registry
SimpleExceptFailsAll(db, t, text) ==
    IF t \in DOMAIN db
    THEN [db |-> [u \in DOMAIN db |-> [db[u] EXCEPT !.status = "failed",
                                                    !.error = text]],
          pc |-> "done"]
    ELSE [db |-> db, pc |-> "crashed"]

\* the except clause of the enhancement and edit tasks; the entry may be gone
SimpleExcept(db, t, text) ==
    IF t \in DOMAIN db
    THEN [db |-> FailEntry(db, t, text), pc |-> "done"]
    ELSE [db |-> db, pc |-> "crashed"]

\* if user_id: db = SessionLocal(); try: update_task_result(...) except: log
Persist(log, t, user, status, dbo) ==
    IF user = 0 THEN [log |-> log, raised |-> FALSE]
    ELSE IF dbo = "session_error" THEN [log |-> log, raised |-> TRUE]
    ELSE IF dbo = "ok"
    THEN [log |-> [log EXCEPT ![t] = Append(@, status)], raised |-> FALSE]
    ELSE [log |-> log, raised |-> FALSE]

\* process_generation_task, lines 407-428: the outer except clause
GenExcept(db, log, t, user, text, dbo) ==
    IF t \notin DOMAIN db
    THEN [db |-> db, log |-> log, pc |-> "crashed"]
    ELSE LET p == Persist(log, t, user, "failed", dbo)
         IN  [ db |-> FailEntry(db, t, text), log |-> p.log,
               pc |-> IF p.raised THEN "crashed" ELSE "done" ]

\* process_generation_task, lines 357-383: completion and its persistence
GenComplete(db, log, t, user, dbo1, dbo2) ==
    IF t \notin DOMAIN db
    THEN GenExcept(db, log, t, user, <<"KeyError">>, dbo2)
    ELSE LET p == Persist(log, t, user, "completed", dbo1)
         IN  IF p.raised
             THEN GenExcept(CompleteEntry(db, t), p.log, t, user,
                            <<"session">>, dbo2)
             ELSE [db |-> CompleteEntry(db, t), log |-> p.log, pc |-> "done"]

\* process_generation_task, lines 307-355: a successful result is fetched
AfterGenerated(db, log, t, user, src, dbo1, dbo2) ==
    IF t \notin DOMAIN db
    THEN [db |-> db, log |-> log, pc |-> "crashed"]
    ELSE LET db90 == [db EXCEPT ![t].progress = 90]
         IN  CASE src = "url" -> [db |-> db90, log |-> log, pc |-> "await_download"]
               [] src = "local" -> GenComplete(db90, log, t, user, dbo1, dbo2)
               [] OTHER -> GenExcept(db90, log, t, user,
                                     <<"Generated image not found">>, dbo2)

AnyId(t) == t \in TaskIds

\* generate_task_id: an id no earlier request was given
FreshId(t) == ex[t].pc = "none"

\* the endpoints enhance_image, generate_image, fast_edit_image and
\* fusion_edit_images: a fresh id, a pending entry, a scheduled background task
CreateTask(t) ==
    /\ ~LoopBusy
    /\ FreshId(t)
    /\ \A u \in DOMAIN ex : u < t => ex[u].pc # "none"
    /\ \E kind \in TaskKinds, user \in Users :
         /\ kind # "generate" => user = 0
         /\ tasks_db' = (t :> NewEntry(kind)) @@ tasks_db
         /\ ex' = [ex EXCEPT ![t] = [NoExecutor EXCEPT
                                        !.pc = "scheduled",
                                        !.kind = kind,
                                        !.user = user,
                                        !.spawned = ex[t].spawned + 1,
                                        !.returned = "pending"]]
    /\ UNCHANGED <<db_updates, orchVars, emVars, chatVars, saVars, pollVars, ppVars, goVars, raVars>>

\* delete_task
DeleteTask(t) ==
    /\ ~LoopBusy
    /\ t \in DOMAIN tasks_db
    /\ tasks_db' = [u \in DOMAIN tasks_db \ {t} |-> tasks_db[u]]
    /\ UNCHANGED <<ex, db_updates, orchVars, emVars, chatVars, saVars, pollVars, ppVars, goVars, raVars>>

\* process_enhancement_task up to the provider call
EnhancementStart(t) ==
    /\ LoopFree(t)
    /\ ex[t].pc = "scheduled"
    /\ ex[t].kind = "enhance"
    /\ IF t \notin DOMAIN tasks_db
       THEN /\ ex' = [ex EXCEPT ![t].pc = "done"]
            /\ UNCHANGED tasks_db
       ELSE \E input_exists \in BOOLEAN :
              LET db10 == [tasks_db EXCEPT ![t].status = "processing",
                                           ![t].progress = 10]
              IN  IF input_exists
                  THEN /\ tasks_db' = [db10 EXCEPT ![t].progress = 20]
                       /\ ex' = [ex EXCEPT ![t].pc = "await_provider"]
                  ELSE /\ tasks_db' = FailEntry(db10, t, <<"Input file not found">>)
                       /\ ex' = [ex EXCEPT ![t].pc = "done"]
    /\ UNCHANGED <<db_updates, orchVars, emVars, chatVars, saVars, pollVars, ppVars, goVars, raVars>>

\* process_enhancement_task from the return of the provider call
EnhancementFinish(t) ==
    /\ LoopFree(t)
    /\ ex[t].pc = "await_provider"
    /\ ex[t].kind = "enhance"
    /\ \E out \in {"ok", "missing", "raise"} :
         LET r == IF t \notin DOMAIN tasks_db
                  THEN SimpleExcept(tasks_db, t, <<"KeyError">>)
                  ELSE CASE out = "ok" ->
                              [db |-> CompleteEntry(tasks_db, t), pc |-> "done"]
                         [] out = "missing" ->
                              SimpleExcept([tasks_db EXCEPT ![t].progress = 90], t,
                                           <<"Output file was not created">>)
                         [] OTHER ->
                              SimpleExcept(tasks_db, t, <<"provider call failed">>)
         IN  /\ tasks_db' = r.db
             /\ ex' = [ex EXCEPT ![t].pc = r.pc]
    /\ UNCHANGED <<db_updates, orchVars, emVars, chatVars, saVars, pollVars, ppVars, goVars, raVars>>

\* process_fast_edit_task and process_fusion_edit_task up to the provider call
EditStart(t) ==
    /\ LoopFree(t)
    /\ ex[t].pc = "scheduled"
    /\ ex[t].kind \in {"fast_edit", "fusion_edit"}
    /\ IF t \notin DOMAIN tasks_db
       THEN /\ ex' = [ex EXCEPT ![t].pc = "crashed"]
            /\ UNCHANGED tasks_db
       ELSE /\ tasks_db' = [tasks_db EXCEPT ![t].status = "processing",
                                            ![t].progress = 20]
            /\ ex' = [ex EXCEPT ![t].pc = "await_provider"]
    /\ UNCHANGED <<db_updates, orchVars, emVars, chatVars, saVars, pollVars, ppVars, goVars, raVars>>

\* process_fast_edit_task and process_fusion_edit_task from the return of the
\* provider call
EditFinish(t) ==
    /\ LoopFree(t)
    /\ ex[t].pc = "await_provider"
    /\ ex[t].kind \in {"fast_edit", "fusion_edit"}
    /\ \E out \in {"ok", "copy_error", "fail", "raise"} :
         LET r == IF t \notin DOMAIN tasks_db
                  THEN SimpleExcept(tasks_db, t, <<"KeyError">>)
                  ELSE CASE out = "ok" ->
                              [db |-> CompleteEntry(tasks_db, t), pc |-> "done"]
                         [] out = "copy_error" ->
                              SimpleExcept(tasks_db, t, <<"copy failed">>)
                         [] out = "fail" ->
                              [db |-> FailEntry(tasks_db, t, <<"edit failed">>),
                               pc |-> "done"]
                         [] OTHER ->
                              SimpleExcept(tasks_db, t, <<"provider call failed">>)
         IN  /\ tasks_db' = r.db
             /\ ex' = [ex EXCEPT ![t].pc = r.pc]
    /\ UNCHANGED <<db_updates, orchVars, emVars, chatVars, saVars, pollVars, ppVars, goVars, raVars>>

\* process_generation_task up to the call of the HuggingFace agent
GenerationStart(t) ==
    /\ LoopFree(t)
    /\ ex[t].pc = "scheduled"
    /\ ex[t].kind = "generate"
    /\ IF t \notin DOMAIN tasks_db
       THEN /\ ex' = [ex EXCEPT ![t].pc = "done"]
            /\ UNCHANGED tasks_db
       ELSE /\ tasks_db' = [tasks_db EXCEPT ![t].status = "processing",
                                            ![t].progress = 40]
            /\ ex' = [ex EXCEPT ![t].pc = "await_hf"]
    /\ UNCHANGED <<db_updates, orchVars, emVars, chatVars, saVars, pollVars, ppVars, goVars, raVars>>

\* process_generation_task from the return of the HuggingFace agent to the
\* next await (the Imagen 4 call or the download) or to the end
GenerationPrimary(t) ==
    /\ LoopFree(t)
    /\ ex[t].pc = "await_hf"
    /\ \E res \in GenResults, dbo1 \in DbOutcomes, dbo2 \in DbOutcomes :
         LET e1 == [ex[t] EXCEPT !.hf = res.kind, !.hf_text = res.text]
         IN  IF res.kind = "ok"
             THEN LET r == AfterGenerated(tasks_db, db_updates, t, e1.user,
                                          res.src, dbo1, dbo2)
                  IN  /\ tasks_db' = r.db
                      /\ db_updates' = r.log
                      /\ ex' = [ex EXCEPT ![t] = [e1 EXCEPT !.pc = r.pc]]
             ELSE IF FallbackTriggered(res.kind, res.text)
             THEN IF t \in DOMAIN tasks_db
                  THEN /\ tasks_db' = [tasks_db EXCEPT
                                         ![t].current_agent = "Imagen 4 (Google)",
                                         ![t].progress = 45]
                       /\ db_updates' = db_updates
                       /\ ex' = [ex EXCEPT ![t] = [e1 EXCEPT !.pc = "await_imagen",
                                                             !.fallback_called = TRUE]]
                  ELSE /\ tasks_db' = tasks_db
                       /\ db_updates' = db_updates
                       /\ ex' = [ex EXCEPT ![t] = [e1 EXCEPT !.pc = "crashed"]]
             ELSE LET r == GenExcept(tasks_db, db_updates, t, e1.user, res.text, dbo2)
                  IN  /\ tasks_db' = r.db
                      /\ db_updates' = r.log
                      /\ ex' = [ex EXCEPT ![t] = [e1 EXCEPT !.pc = r.pc]]
    /\ UNCHANGED <<orchVars, emVars, chatVars, saVars, pollVars, ppVars, goVars, raVars>>

\* process_generation_task from the return of the Imagen 4 agent
GenerationFallback(t) ==
    /\ LoopFree(t)
    /\ ex[t].pc = "await_imagen"
    /\ \E res \in GenResults, dbo1 \in DbOutcomes, dbo2 \in DbOutcomes :
         LET r == IF res.kind = "ok"
                  THEN AfterGenerated(tasks_db, db_updates, t, ex[t].user,
                                      res.src, dbo1, dbo2)
                  ELSE GenExcept(tasks_db, db_updates, t, ex[t].user,
                                 <<"Both generation methods failed">>
                                     \o ex[t].hf_text \o res.text, dbo2)
         IN  /\ tasks_db' = r.db
             /\ db_updates' = r.log
             /\ ex' = [ex EXCEPT ![t].pc = r.pc]
    /\ UNCHANGED <<orchVars, emVars, chatVars, saVars, pollVars, ppVars, goVars, raVars>>

\* process_generation_task from the return of the download of the result URL
GenerationDownload(t) ==
    /\ LoopFree(t)
    /\ ex[t].pc = "await_download"
    /\ \E ok \in BOOLEAN, dbo1 \in DbOutcomes, dbo2 \in DbOutcomes :
         LET r == IF ok
                  THEN GenComplete(tasks_db, db_updates, t, ex[t].user, dbo1, dbo2)
                  ELSE GenExcept(tasks_db, db_updates, t, ex[t].user,
                                 <<"download failed">>, dbo2)
         IN  /\ tasks_db' = r.db
             /\ db_updates' = r.log
             /\ ex' = [ex EXCEPT ![t].pc = r.pc]
    /\ UNCHANGED <<orchVars, emVars, chatVars, saVars, pollVars, ppVars, goVars, raVars>>

\* one step of the background task of t
ExecutorStep(t) ==
    \/ EnhancementStart(t)
    \/ EnhancementFinish(t)
    \/ EditStart(t)
    \/ EditFinish(t)
    \/ GenerationStart(t)
    \/ GenerationPrimary(t)
    \/ GenerationFallback(t)
    \/ GenerationDownload(t)

InitReg ==
    /\ OrchOff
    /\ EMIdle
    /\ RegIdle
    /\ ChatIdle
    /\ SAIdle
    /\ PollIdle
    /\ PPIdle
    /\ GOIdle
    /\ RAIdle

NextReg ==
    \E t \in TaskIds :
        \/ CreateTask(t)
        \/ DeleteTask(t)
        \/ EnhancementStart(t)
        \/ EnhancementFinish(t)
        \/ EditStart(t)
        \/ EditFinish(t)
        \/ GenerationStart(t)
        \/ GenerationPrimary(t)
        \/ GenerationFallback(t)
        \/ GenerationDownload(t)

SpecReg == InitReg /\ [][NextReg]_vars

\* the event loop runs every scheduled background task, and every provider
\* call returns or raises
FairSpecReg == SpecReg /\ \A t \in TaskIds : WF_vars(ExecutorStep(t))

---------------------------------------------------------------------------
\* Several background tasks of main.py side by side

MaxPairTasks == 2

\* the ids of the requests that are served side by side
PairIds == 1..MaxPairTasks

\* the requests sent: enhancements and anonymous generations
PairKinds == {"enhance", "generate"}

PairRequest(t) ==
    /\ CreateTask(t)
    /\ ex'[t].kind \in PairKinds
    /\ ex'[t].user = 0

InitPair ==
    /\ OrchOff
    /\ EMIdle
    /\ ChatIdle
    /\ SAIdle
    /\ PollIdle
    /\ PPIdle
    /\ GOIdle
    /\ RAIdle
    /\ tasks_db = << >>
    /\ ex = [t \in PairIds |-> NoExecutor]
    /\ db_updates = [t \in PairIds |-> << >>]

NextPair ==
    \E t \in PairIds :
        \/ PairRequest(t)
        \/ EnhancementStart(t)
        \/ EnhancementFinish(t)
        \/ GenerationStart(t)
        \/ GenerationPrimary(t)
        \/ GenerationFallback(t)
        \/ GenerationDownload(t)

SpecPair == InitPair /\ [][NextPair]_vars

\* the step is one of the background task of t
StepOf(t) == ex[t].pc # "none" /\ ex'[t] # ex[t]

\* the step is one of the chat background task of t
ChatStepOf(t) == chat_ex[t].pc # "none" /\ chat_ex'[t] # chat_ex[t]

\* C38: a background task writes the registry entry of its own id only:
\* every step of the task of one id leaves the entries of all other ids in
\* the registry, with the same status, progress, result and error
C38_WritesOwnEntryOnly ==
    [][ /\ \A t \in DOMAIN ex :
              StepOf(t) =>
                  \A u \in DOMAIN tasks_db \ {t} :
                      u \in DOMAIN tasks_db' /\ tasks_db'[u] = tasks_db[u]
        /\ \A t \in DOMAIN chat_ex :
              ChatStepOf(t) =>
                  \A u \in DOMAIN chat_tasks_db \ {t} :
                      /\ u \in DOMAIN chat_tasks_db'
                      /\ chat_tasks_db'[u] = chat_tasks_db[u] ]_vars

\* one task has failed while the other one is in its provider call and
\* still processing
C38_Witness ==
    \E t, u \in DOMAIN ex :
        /\ t # u
        /\ t \in DOMAIN tasks_db
        /\ u \in DOMAIN tasks_db
        /\ tasks_db[t].status = "failed"
        /\ ProviderInFlight(u)
        /\ tasks_db[u].status = "processing"
        /\ tasks_db[u].error = NoError

---------------------------------------------------------------------------
\* Status and result queries (backend/api/main.py)

\* result_url = None
NoUrl == <<"None">>

\* f"/static/{result_path.name}"
StaticUrl(result_path) == <<"static", result_path>>

\* raise HTTPException(status_code=code, ...)
HTTPException(kind, t, code) ==
    [kind |-> kind, task_id |-> t, code |-> code, status |-> "None",
     progress |-> 0, error |-> NoError, result_url |-> NoUrl]

StatusResponseAlwaysUrl(db, t) ==
    [kind |-> "status", task_id |-> t, code |-> 200,
     status |-> db[t].status, progress |-> db[t].progress,
     error |-> db[t].error, result_url |-> StaticUrl(db[t].result_path)]

\* the TaskStatusResponse get_task_status builds from a known entry
StatusResponse(db, t) ==
    [kind |-> "status", task_id |-> t, code |-> 200,
     status |-> db[t].status, progress |-> db[t].progress,
     error |-> db[t].error,
     result_url |-> IF db[t].status = "completed" /\ db[t].result_path # "None"
                    THEN StaticUrl(db[t].result_path)
                    ELSE NoUrl]

\* the FileResponse get_task_result returns
FileResponse(db, t) ==
    [kind |-> "result", task_id |-> t, code |-> 200,
     status |-> db[t].status, progress |-> db[t].progress,
     error |-> db[t].error, result_url |-> <<"file", db[t].result_path>>]

\* get_task_status: the handler has no await, it runs in one step
GetStatus(t) ==
    /\ ~LoopBusy
    /\ poll = NoPoll
    /\ poll' = IF t \notin DOMAIN tasks_db
               THEN HTTPException("status", t, 404)
               ELSE StatusResponse(tasks_db, t)
    /\ UNCHANGED <<orchVars, emVars, regVars, chatVars, saVars, ppVars, goVars, raVars>>

\* get_task_result
GetResult(t) ==
    /\ ~LoopBusy
    /\ poll = NoPoll
    /\ \E file_exists \in BOOLEAN :
         poll' = IF t \notin DOMAIN tasks_db
                   THEN HTTPException("result", t, 404)
                 ELSE IF tasks_db[t].status # "completed"
                   THEN HTTPException("result", t, 400)
                 ELSE IF tasks_db[t].result_path = "None" \/ ~file_exists
                   THEN HTTPException("result", t, 404)
                 ELSE FileResponse(tasks_db, t)
    /\ UNCHANGED <<orchVars, emVars, regVars, chatVars, saVars, ppVars, goVars, raVars>>

\* the response has been sent to the client
PollReturn ==
    /\ poll # NoPoll
    /\ poll' = NoPoll
    /\ UNCHANGED <<orchVars, emVars, regVars, chatVars, saVars, ppVars, goVars, raVars>>

\* an endpoint or a background task runs between two responses
RegistryStep == poll = NoPoll /\ NextReg

NextPoll ==
    \/ RegistryStep
    \/ \E t \in TaskIds : GetStatus(t)
    \/ \E t \in TaskIds : GetResult(t)
    \/ PollReturn

SpecPoll == InitReg /\ [][NextPoll]_vars

\* the entry of t is stored by this step
Stored(t) == t \notin DOMAIN tasks_db /\ t \in DOMAIN tasks_db'

\* C36: whatever the interleaving of delete_task with the background task of
\* the same id, the background task never ends in an exception nobody
\* handles, and an entry delete_task removed is never stored again
C36_DeleteWhileInFlight ==
    /\ [](\A t \in TaskIds : ex[t].pc # "crashed")
    /\ [][\A t \in TaskIds : Stored(t) => ex[t].pc = "none"]_vars

C26_QueriesReportTheEntry ==
    /\ [](poll # NoPoll =>
            LET t == poll.task_id
            IN  /\ t \notin DOMAIN tasks_db => poll.code = 404
                /\ (poll.kind = "status" /\ t \in DOMAIN tasks_db) =>
                      /\ poll.code = 200
                      /\ poll.status = tasks_db[t].status
                      /\ poll.progress = tasks_db[t].progress
                      /\ poll.error = tasks_db[t].error
                      /\ poll.result_url # NoUrl => poll.status = "completed"
                /\ (poll.kind = "result" /\ poll.code = 200) =>
                      /\ t \in DOMAIN tasks_db
                      /\ tasks_db[t].status = "completed")
    /\ [][poll' # poll => (tasks_db' = tasks_db /\ ex' = ex)]_vars

C26_Witness ==
    /\ poll # NoPoll
    /\ poll.kind = "status"
    /\ poll.code = 200
    /\ poll.status = "completed"
    /\ poll.result_url = StaticUrl("result.png")

C28_NoTornSnapshot ==
    /\ \A t \in DOMAIN tasks_db :
          /\ tasks_db[t].status = "completed" =>
                /\ tasks_db[t].progress = 100
                /\ tasks_db[t].result_path # "None"
          /\ tasks_db[t].status = "failed" => tasks_db[t].error # NoError
    /\ (poll # NoPoll /\ poll.kind = "status" /\ poll.code = 200) =>
          /\ poll.status = "completed" =>
                (poll.progress = 100 /\ poll.result_url # NoUrl)
          /\ poll.status = "failed" => poll.error # NoError

C28_Witness ==
    /\ poll # NoPoll
    /\ poll.kind = "status"
    /\ poll.code = 200
    /\ poll.status = "failed"
    /\ poll.progress = 90

\* C29: while a provider call made for one task is in flight the event loop
\* is not occupied by it: a status poll for any task can be served
C29_ProviderCallsLeaveSchedulerFree ==
    \A t \in TaskIds :
        (ProviderInFlight(t) /\ poll = NoPoll) =>
            /\ ~LoopBusy
            /\ \A u \in TaskIds : ENABLED GetStatus(u)

---------------------------------------------------------------------------
\* Properties of the registry (specifications SpecReg and FairSpecReg)

PrimaryReturned(t) == ex[t].hf # "none"

PrimaryFailed(t) == ex[t].hf \in {"fail", "raise"}

\* C7 as stated: the fallback provider is invoked if and only if the primary
\* invocation raised or returned an unsuccessful result.
C7_FallbackIffPrimaryFailed ==
    \A t \in TaskIds :
        PrimaryReturned(t) => (ex[t].fallback_called <=> PrimaryFailed(t))

\* the message of the primary's failure names a quota
QuotaFailure(t) ==
    /\ PrimaryFailed(t)
    /\ \E i \in 1..Len(ex[t].hf_text) :
          ex[t].hf_text[i] \in {"Quota", "exceeded", "RuntimeError"}

\* C7 amended: the fallback provider is invoked only if the primary
\* invocation failed (raised or returned unsuccessful) with a message
\* containing "quota", "exceeded" or "runtime" in any letter case, and it is
\* invoked in every such case unless the task's entry has been deleted by then
\* (the background task then ends on a KeyError).
C7_FallbackIffQuotaFailure ==
    \A t \in TaskIds :
        /\ ex[t].fallback_called => QuotaFailure(t)
        /\ (QuotaFailure(t) /\ ex[t].pc # "crashed") => ex[t].fallback_called

\* a primary that failed on a quota and a fallback that was invoked
C7_Witness ==
    \E t \in TaskIds :
        /\ ex[t].hf = "fail"
        /\ ex[t].hf_text = <<"Quota">>
        /\ ex[t].fallback_called
        /\ ex[t].pc = "await_imagen"

Terminal(t) == tasks_db[t].status \in {"completed", "failed"}

\* C10: every task in the registry eventually has status completed or
\* failed (or has been removed by delete_task).
C10_EventuallyTerminal ==
    \A t \in TaskIds :
        [](t \in DOMAIN tasks_db => <>(t \notin DOMAIN tasks_db \/ Terminal(t)))

\* a background task has run to its end and left its entry terminal
C10_Witness ==
    \E t \in TaskIds :
        /\ ex[t].pc = "done"
        /\ t \in DOMAIN tasks_db
        /\ tasks_db[t].status = "failed"
        /\ tasks_db[t].error # NoError

---------------------------------------------------------------------------
\* backend/api/chat_agent_routes.py: chat_tasks_db and its background tasks

ChatKinds == {"enhance", "generate"}

\* entries of chat_tasks_db; progress -1 stands for an entry without that key
ChatProcessing ==
    [status |-> "processing", progress |-> 10, result_url |-> "None",
     error |-> NoError]

ChatCompleted ==
    [status |-> "completed", progress |-> 100, result_url |-> "result.png",
     error |-> NoError]

\* chat_tasks_db[task_id] = {"status": "failed", "error": error_msg}
ChatFailed(old, msg) ==
    [status |-> "failed", progress |-> -1, result_url |-> "None",
     error |-> msg]

\* the running background task as a record: registry, executors, update calls
ChatNow == [db |-> chat_tasks_db, ex |-> chat_ex, up |-> chat_updates]

\* chat_tasks_db[task_id] = entry, noted in the history of the task
ChatSet(c, t, entry) ==
    [c EXCEPT !.db = [u \in DOMAIN c.db \cup {t} |->
                         IF u = t THEN entry ELSE c.db[u]],
              !.ex[t].writes = Append(@, [status |-> entry.status,
                                          progress |-> entry.progress])]

\* chat_tasks_db[task_id]["progress"] = p
ChatProgress(c, t, p) == ChatSet(c, t, [c.db[t] EXCEPT !.progress = p])

\* history_helper.update_task_result: catches its own exceptions; the call is
\* noted with the status the registry entry has at that moment
ChatUpdate(c, t, status) ==
    [c EXCEPT !.up[t] = Append(@, [status |-> status,
                                   entry_status |-> c.db[t].status])]

ChatAt(c, t, at) == [c EXCEPT !.ex[t].pc = at]

\* the except clause of both background tasks, followed by finally
ChatExcept(c, t, msg) ==
    ChatAt(ChatUpdate(ChatSet(c, t, ChatFailed(c.db[t], msg)), t, "failed"),
           t, "done")

\* update_task_result("completed"), the completed entry, then the completion
\* chat message, which may raise into the except clause
ChatComplete(c, t, msg_ok) ==
    LET c1 == ChatUpdate(c, t, "completed")
        c2 == ChatSet([c1 EXCEPT !.ex[t].processed = TRUE], t, ChatCompleted)
    IN  IF msg_ok THEN ChatAt(c2, t, "done")
        ELSE ChatExcept(c2, t, <<"create_chat_message">>)

\* the step of the running background task becomes the next state
ChatBecomes(c) ==
    /\ chat_tasks_db' = c.db
    /\ chat_ex' = c.ex
    /\ chat_updates' = c.up

\* send_message: a task id, the task saved, a background task scheduled
ChatCreate(t) ==
    /\ chat_ex[t].pc = "none"
    /\ \A u \in ChatTaskIds : u < t => chat_ex[u].pc # "none"
    /\ \E kind \in ChatKinds :
         chat_ex' = [chat_ex EXCEPT ![t] = [NoChatExecutor EXCEPT
                                              !.pc = "scheduled", !.kind = kind]]
    /\ UNCHANGED <<chat_tasks_db, chat_updates, orchVars, emVars, regVars, saVars, pollVars, ppVars, goVars, raVars>>

\* process_enhancement_task up to the provider call: the session is opened
\* before the try, the input file is checked before and the task type and the
\* prompt after progress 30
ChatEnhancementStart(t) ==
    /\ chat_ex[t].pc = "scheduled"
    /\ chat_ex[t].kind = "enhance"
    /\ \E session_ok \in BOOLEAN, pre \in {"ok", "no_input", "bad_request"} :
         IF ~session_ok
         THEN ChatBecomes(ChatAt(ChatNow, t, "crashed"))
         ELSE LET c10 == ChatSet(ChatNow, t, ChatProcessing)
                  c30 == ChatProgress(c10, t, 30)
              IN  CASE pre = "no_input" ->
                          ChatBecomes(ChatExcept(c10, t, <<"Input file not found">>))
                    [] pre = "bad_request" ->
                          ChatBecomes(ChatExcept(c30, t, <<"ValueError">>))
                    [] OTHER -> ChatBecomes(ChatAt(c30, t, "await_provider"))
    /\ UNCHANGED <<orchVars, emVars, regVars, saVars, pollVars, ppVars, goVars, raVars>>

\* process_enhancement_task from the return of the provider call
ChatEnhancementFinish(t) ==
    /\ chat_ex[t].pc = "await_provider"
    /\ chat_ex[t].kind = "enhance"
    /\ \E out \in {"ok", "missing", "raise", "copy_error"}, msg_ok \in BOOLEAN :
         LET c80 == ChatProgress(ChatNow, t, 80)
         IN  CASE out = "raise" ->
                     ChatBecomes(ChatExcept(ChatNow, t, <<"provider call failed">>))
               [] out = "missing" ->
                     ChatBecomes(ChatExcept(c80, t, <<"Output file was not created">>))
               [] out = "copy_error" ->
                     ChatBecomes(ChatExcept(c80, t, <<"copy failed">>))
               [] OTHER -> ChatBecomes(ChatComplete(c80, t, msg_ok))
    /\ UNCHANGED <<orchVars, emVars, regVars, saVars, pollVars, ppVars, goVars, raVars>>

\* process_generation_task up to the call of imagen4_agent.generate_image
ChatGenerationStart(t) ==
    /\ chat_ex[t].pc = "scheduled"
    /\ chat_ex[t].kind = "generate"
    /\ \E session_ok \in BOOLEAN :
         IF ~session_ok
         THEN ChatBecomes(ChatAt(ChatNow, t, "crashed"))
         ELSE ChatBecomes(ChatAt(ChatSet(ChatNow, t, ChatProcessing), t,
                                 "await_provider"))
    /\ UNCHANGED <<orchVars, emVars, regVars, saVars, pollVars, ppVars, goVars, raVars>>

\* process_generation_task from the return of generate_image to the download
\* of a URL or to the end
ChatGenerationReturn(t) ==
    /\ chat_ex[t].pc = "await_provider"
    /\ chat_ex[t].kind = "generate"
    /\ \E r \in GenResults, msg_ok \in BOOLEAN :
         LET c80 == ChatProgress(ChatNow, t, 80)
         IN  CASE r.kind = "raise" -> ChatBecomes(ChatExcept(ChatNow, t, r.text))
               [] r.kind = "fail" -> ChatBecomes(ChatExcept(c80, t, r.text))
               [] r.src = "url" -> ChatBecomes(ChatAt(c80, t, "await_download"))
               [] OTHER -> ChatBecomes(ChatComplete(c80, t, msg_ok))
    /\ UNCHANGED <<orchVars, emVars, regVars, saVars, pollVars, ppVars, goVars, raVars>>

\* process_generation_task from the answer of the download
ChatGenerationDownload(t) ==
    /\ chat_ex[t].pc = "await_download"
    /\ \E ok \in BOOLEAN, msg_ok \in BOOLEAN :
         IF ok THEN ChatBecomes(ChatComplete(ChatNow, t, msg_ok))
         ELSE ChatBecomes(ChatExcept(ChatNow, t, <<"download failed">>))
    /\ UNCHANGED <<orchVars, emVars, regVars, saVars, pollVars, ppVars, goVars, raVars>>

InitChat ==
    /\ OrchOff
    /\ EMIdle
    /\ RegIdle
    /\ ChatIdle
    /\ SAIdle
    /\ PollIdle
    /\ PPIdle
    /\ GOIdle
    /\ RAIdle

NextChat ==
    \E t \in ChatTaskIds :
        \/ ChatCreate(t)
        \/ ChatEnhancementStart(t)
        \/ ChatEnhancementFinish(t)
        \/ ChatGenerationStart(t)
        \/ ChatGenerationReturn(t)
        \/ ChatGenerationDownload(t)

SpecChat == InitChat /\ [][NextChat]_vars

---------------------------------------------------------------------------
\* Properties of the two registries (specifications SpecReg and SpecChat)

\* get_task_status of main.py: task.get("progress", 0.0)
Reported(entry) == entry.progress

\* get_task_status of chat_agent_routes.py: task_data.get("progress", 0)
ChatReported(entry) == IF entry.progress = -1 THEN 0 ELSE entry.progress

\* between two status queries of a task the reported progress does not drop
ProgressNeverDrops ==
    /\ \A t \in TaskIds :
          (t \in DOMAIN tasks_db /\ t \in DOMAIN tasks_db')
              => Reported(tasks_db'[t]) >= Reported(tasks_db[t])
    /\ \A t \in ChatTaskIds :
          (t \in DOMAIN chat_tasks_db /\ t \in DOMAIN chat_tasks_db')
              => ChatReported(chat_tasks_db'[t]) >= ChatReported(chat_tasks_db[t])

\* the entry written on a failure reports the progress of the entry before it
FrozenOnFailure ==
    \A t \in ChatTaskIds :
        \A i \in 2..Len(chat_ex[t].writes) :
            chat_ex[t].writes[i].status = "failed"
                => ChatReported(chat_ex[t].writes[i])
                       = ChatReported(chat_ex[t].writes[i - 1])

\* C12: in tasks_db and in chat_tasks_db the progress reported by successive
\* status queries of a task never decreases, and a task that fails keeps
\* reporting the progress it had before the failure.
C12_ReportedProgressMonotonic ==
    /\ [][ProgressNeverDrops]_vars
    /\ []FrozenOnFailure

TerminalStatuses == {"completed", "failed"}

\* a step leaves a terminal entry of tasks_db as it is
TerminalEntryKept ==
    \A t \in TaskIds :
        (t \in DOMAIN tasks_db /\ t \in DOMAIN tasks_db'
            /\ tasks_db[t].status \in TerminalStatuses)
        => tasks_db'[t] = tasks_db[t]

\* a terminal entry written to chat_tasks_db is the last one written
TerminalWriteIsLast ==
    \A t \in ChatTaskIds :
        \A i \in 1..(Len(chat_ex[t].writes) - 1) :
            chat_ex[t].writes[i].status \notin TerminalStatuses

\* C37: update_task_result is called with a terminal status at most once
\* for a task, and the status it records is the one the registry reports
\* when the background task has ended
C37_OneTerminalRecord ==
    /\ \A t \in TaskIds :
          /\ Len(db_updates[t]) <= 1
          /\ (ex[t].pc \in {"done", "crashed"} /\ t \in DOMAIN tasks_db
                 /\ db_updates[t] # << >>)
                => db_updates[t][Len(db_updates[t])] = tasks_db[t].status
    /\ \A t \in ChatTaskIds :
          /\ Len(chat_updates[t]) <= 1
          /\ (chat_ex[t].pc = "done" /\ t \in DOMAIN chat_tasks_db
                 /\ chat_updates[t] # << >>)
                => chat_updates[t][Len(chat_updates[t])].status
                     = chat_tasks_db[t].status

\* C13: once the registry entry of a task has status completed or failed, no
\* later step of an executor or of persistence changes its status, progress,
\* result reference or error.
C13_TerminalIsFinal ==
    /\ [][TerminalEntryKept]_vars
    /\ []TerminalWriteIsLast

\* C14: a failure of persistence (opening the session, update_task_result,
\* the completion chat message) never fails the task: a task whose processing
\* succeeded ends with status completed in its registry.
C14_PersistenceNeverFailsTask ==
    /\ \A t \in TaskIds :
          (t \in DOMAIN tasks_db /\ ex[t].pc \in {"done", "crashed"}
               /\ tasks_db[t].result_path # "None")
              => tasks_db[t].status = "completed"
    /\ \A t \in ChatTaskIds :
          (t \in DOMAIN chat_tasks_db /\ chat_ex[t].pc = "done"
               /\ chat_ex[t].processed)
              => chat_tasks_db[t].status = "completed"

\* C15: update_task_result is called with a terminal status only, and only
\* when the registry entry of the task already has that status.
C15_RecordAfterTransition ==
    /\ \A t \in TaskIds :
          \A i \in 1..Len(db_updates[t]) :
              db_updates[t][i] \in TerminalStatuses
    /\ \A t \in ChatTaskIds :
          \A i \in 1..Len(chat_updates[t]) :
              /\ chat_updates[t][i].status \in TerminalStatuses
              /\ chat_updates[t][i].entry_status = chat_updates[t][i].status

---------------------------------------------------------------------------
\* backend/agents/task_analyzer.py, SimpleTaskAnalyzer

\* self.keywords, in insertion order (the unaccented keywords)
KeywordOrder == <<"deblur", "inpaint", "beauty_enhance", "generate">>

keywords(task_type) ==
    CASE task_type = "deblur" -> {"blur", "sharp", "clear"}
      [] task_type = "inpaint" -> {"remove", "delete", "object", "background",
                                   "text", "watermark"}
      [] task_type = "beauty_enhance" -> {"beauty", "beautify", "da", "skin",
                                          "face", "portrait"}
      [] OTHER -> {"generate", "draw", "create"}

\* the words a lower-cased request is made of
Vocabulary == {"blurry", "sharpen", "remove", "watermark", "face", "skin",
               "draw", "create", "blah"}

Requests == {r \in SUBSET Vocabulary : Cardinality(r) <= MaxRequestWords}

\* kw in word, for the words of the vocabulary
KeywordIn(kw, word) ==
    \/ kw = word
    \/ (kw = "blur" /\ word = "blurry")
    \/ (kw = "sharp" /\ word = "sharpen")

\* sum(1 for kw in keywords if kw in user_request_lower)
Score(task_type, request) ==
    Cardinality({kw \in keywords(task_type) :
                    \E word \in request : KeywordIn(kw, word)})

RECURSIVE PyMaxLast(_, _, _, _)
\* a max that moves to a later key on an equal score
PyMaxLast(order, request, i, best) ==
    IF i > Len(order) THEN best
    ELSE PyMaxLast(order, request, i + 1,
                   IF Score(order[i], request) >= Score(best, request)
                   THEN order[i] ELSE best)

RECURSIVE PyMax(_, _, _, _)
\* max(scores, key=scores.get): a later key replaces the best one only on a
\* strictly greater score
PyMax(order, request, i, best) ==
    IF i > Len(order) THEN best
    ELSE PyMax(order, request, i + 1,
               IF Score(order[i], request) > Score(best, request)
               THEN order[i] ELSE best)

Min(a, b) == IF a <= b THEN a ELSE b

\* SimpleTaskAnalyzer.analyze; confidence in hundredths, matched is the
\* number the reasoning reports
analyze(request) ==
    LET best_task == PyMax(KeywordOrder, request, 2, KeywordOrder[1])
        max_score == Score(best_task, request)
    IN  [ task_type |-> IF max_score = 0 THEN "deblur" ELSE best_task,
          confidence |-> IF max_score = 0 THEN 50
                         ELSE Min(60 + max_score * 10, 95),
          matched |-> max_score,
          scores |-> [i \in 1..Len(KeywordOrder) |->
                         Score(KeywordOrder[i], request)] ]

\* await analyzer.analyze(user_request)
SimpleAnalyze ==
    /\ sa_result = NoResult
    /\ sa_result' = analyze(sa_request)
    /\ UNCHANGED <<sa_request, orchVars, emVars, regVars, chatVars, pollVars, ppVars, goVars, raVars>>

InitAnalyze ==
    /\ OrchOff
    /\ EMIdle
    /\ RegIdle
    /\ ChatIdle
    /\ PollIdle
    /\ PPIdle
    /\ GOIdle
    /\ RAIdle
    /\ sa_request \in Requests
    /\ sa_result = NoResult

NextAnalyze == SimpleAnalyze

SpecAnalyze == InitAnalyze /\ [][NextAnalyze]_vars

\* position of a task type in the fixed order
Rank(task_type) == CHOOSE i \in 1..Len(KeywordOrder) : KeywordOrder[i] = task_type

\* C18: analyze returns a task type with the highest keyword count; among
\* task types with the same highest count the earliest of DEBLUR, INPAINT,
\* BEAUTY_ENHANCE, GENERATE; with no match at all it returns DEBLUR with
\* confidence 0.5 and a reasoning that reports 0 matched keywords.
C18_HighestCountEarliestWins ==
    sa_result # NoResult =>
        LET n == Rank(sa_result.task_type)
        IN  /\ \A i \in 1..4 : sa_result.scores[i] = Score(KeywordOrder[i], sa_request)
            /\ \A i \in 1..4 : sa_result.scores[i] <= sa_result.scores[n]
            /\ \A i \in 1..(n - 1) : sa_result.scores[i] < sa_result.scores[n]
            /\ (\A i \in 1..4 : sa_result.scores[i] = 0) =>
                  /\ sa_result.task_type = "deblur"
                  /\ sa_result.confidence = 50
                  /\ sa_result.matched = 0

\* a tie of INPAINT and GENERATE, resolved for INPAINT
C18_Witness ==
    /\ sa_result # NoResult
    /\ sa_result.scores = <<0, 2, 0, 2>>
    /\ sa_result.task_type = "inpaint"

---------------------------------------------------------------------------
\* QualityControlAgent.safe_process called on the state a worker left

\* the paths an output_path can hold: none, the file the worker wrote, a file
\* that is no longer there
OutputPaths == {NoPath, "out.png", "lost.png"}

ValidatorInputs ==
    { [WorkflowState EXCEPT !.status = "processing", !.progress = 70,
                            !.task_type = "deblur",
                            !.input_path = i, !.output_path = p] :
        i \in InputPaths, p \in OutputPaths }

\* state = await quality_agent.safe_process(state)
ValidatorRun ==
    /\ pc = "start"
    /\ orch = "validator"
    /\ \E o \in OraclesFor("Quality Control") :
         LET r == safe_process("Quality Control", state, o)
         IN  /\ trace' = Append(trace, Called("Quality Control", state, o))
             /\ state' = r.state
             /\ pc' = IF r.exc # NoExc THEN "raised" ELSE "done"
    /\ UNCHANGED <<orch, idx, failsBefore, outfile, emVars, regVars, chatVars, saVars, pollVars, ppVars, goVars, raVars>>

InitQC ==
    /\ orch = "validator"
    /\ state \in ValidatorInputs
    /\ pc = "start"
    /\ idx = 1
    /\ trace = << >>
    /\ failsBefore = 0
    /\ outfile \in OutFiles
    /\ EMIdle
    /\ RegIdle
    /\ ChatIdle
    /\ SAIdle
    /\ PollIdle
    /\ PPIdle
    /\ GOIdle
    /\ RAIdle

NextQC == ValidatorRun

SpecQC == InitQC /\ [][NextQC]_vars

---------------------------------------------------------------------------
\* Properties of the validator (specification SpecQC)

\* the names of the executed checks, in order
Executed == [i \in 1..Len(state.quality_checks) |-> state.quality_checks[i].name]

\* the whole battery for the state: the comparison only with an input path
Battery ==
    <<"output_exists", "file_size", "image_format", "dimensions">>
    \o (IF state.input_path # NoPath THEN <<"comparison">> ELSE << >>)

OutputFound == state.output_path # NoPath /\ Exists(state.output_path)

\* C21 as stated: every check of the battery runs whatever the earlier ones
\* found, except that a failed output_exists check is the only one executed.
C21_OnlyExistenceShortCircuits ==
    pc = "done" =>
        Executed = IF OutputFound THEN Battery ELSE <<"output_exists">>

\* C21 amended: a failed output_exists check is the only one executed; with
\* the output present the size and the format checks always run, and the
\* dimensions and comparison checks run if and only if the format check
\* passed (the file decodes as an image).
C21_ExistenceAndFormatShortCircuit ==
    pc = "done" =>
        Executed = IF ~OutputFound THEN <<"output_exists">>
                   ELSE IF outfile.decodable THEN Battery
                   ELSE <<"output_exists", "file_size", "image_format">>

\* a file too small but decodable: every check of the battery was executed
C21_Witness ==
    /\ pc = "done"
    /\ OutputFound
    /\ ~outfile.size_ok /\ outfile.decodable
    /\ state.input_path = "in.png"
    /\ Len(state.quality_checks) = 5

AllPassed == \A i \in 1..Len(state.quality_checks) : state.quality_checks[i].passed

\* the names of the executed checks that did not pass, in order
NotPassed ==
    SelectSeq(state.quality_checks, LAMBDA c : ~c.passed)

\* C22: after the validator the status is COMPLETED with progress 100 if and
\* only if every executed check passed; otherwise the status is FAILED and
\* the error recorded last names exactly the checks that did not pass.
C22_CompletedIffAllPassed ==
    pc = "done" =>
        /\ state.status \in {"completed", "failed"}
        /\ (state.status = "completed" /\ state.progress = 100) <=> AllPassed
        /\ ~AllPassed =>
              /\ state.status = "failed"
              /\ Len(state.errors) = 1
              /\ state.errors[1].agent = "Quality Control"
              /\ state.errors[1].error =
                    <<"Quality check FAILED:">>
                    \o [i \in 1..Len(NotPassed) |-> NotPassed[i].name]

\* two of five executed checks failed and are the ones named
C22_Witness ==
    /\ pc = "done"
    /\ Len(state.quality_checks) = 5
    /\ state.status = "failed"
    /\ state.progress = 80
    /\ state.errors[1].error = <<"Quality check FAILED:", "file_size", "comparison">>

---------------------------------------------------------------------------
\* End-to-end scenarios (specification Spec)

\* the request of the scenario, lower-cased and split into words
RemoveWatermark == {"remove", "watermark"}

\* an output file that passes every check of the validator
PassingFile ==
    [size_ok |-> TRUE, decodable |-> TRUE, dims_ok |-> TRUE,
     in_decodable |-> TRUE, same_size |-> TRUE, differs |-> TRUE]

\* C32: the request "remove watermark" is analysed by the rule-based analyzer
\* as inpaint with confidence at least 0.6; when the first provider call of
\* the run raises, a further provider call would succeed and the output file
\* passes every check, the run ends completed with progress 100
C32_RemoveWatermarkScenario ==
    /\ analyze(RemoveWatermark).task_type = "inpaint"
    /\ analyze(RemoveWatermark).confidence >= 60
    /\ ( /\ orch = "simple"
         /\ pc = "done"
         /\ state.task_type = analyze(RemoveWatermark).task_type
         /\ state.input_path = "in.png"
         /\ failsBefore = 1
         /\ outfile = PassingFile
         /\ \E i \in 1..Len(trace) :
               trace[i].agent = "Image Worker" /\ trace[i].exc.type = "ProviderError" )
       => (state.status = "completed" /\ state.progress = 100)

---------------------------------------------------------------------------
\* deep_vision/models/prompt_processor.py, PromptProcessor._analyze_prompt

MaxPromptWords == 3

\* the words a lower-cased prompt is made of
PromptWords == {"add", "makeup", "remove", "sharpen", "smooth", "skin",
                "replace", "details", "vibrant"}

RECURSIVE SeqsUpTo(_, _)
\* the sequences over S of length at most n
SeqsUpTo(S, n) ==
    IF n = 0 THEN {<< >>}
    ELSE SeqsUpTo(S, n - 1)
         \cup { Append(q, w) : q \in { r \in SeqsUpTo(S, n - 1) : Len(r) = n - 1 },
                               w \in S }

Prompts == SeqsUpTo(PromptWords, MaxPromptWords) \ {<< >>}

\* kw in word, for a keyword without blank and the words of PromptWords
WordHas(word, kw) ==
    \/ kw = <<word>>
    \/ (kw = <<"sharp">> /\ word = "sharpen")
    \/ (kw = <<"place">> /\ word = "replace")
    \/ (kw = <<"detail">> /\ word = "details")

\* kw in prompt_lower: a keyword is a sequence of words, matched as a
\* substring of the prompt whose words are joined by blanks
KeywordInPrompt(kw, prompt) ==
    IF Len(kw) = 1
    THEN \E i \in 1..Len(prompt) : WordHas(prompt[i], kw)
    ELSE \E i \in 1..(Len(prompt) - 1) :
            prompt[i] = kw[1] /\ prompt[i + 1] = kw[2]

\* the keyword list of each if statement
GroupKeywords(type) ==
    CASE type = "beautify" -> {<<"beautify">>, <<"beauty">>, <<"makeup">>,
                               <<"smooth", "skin">>}
      [] type = "remove" -> {<<"remove">>, <<"delete">>, <<"erase">>, <<"clean">>}
      [] type = "sharpen" -> {<<"sharpen">>, <<"sharp">>, <<"crisp">>,
                              <<"detail">>, <<"enhance", "details">>}
      [] OTHER -> {<<"add">>, <<"insert">>, <<"place">>, <<"put">>}

\* any(word in prompt_lower for word in [...])
GroupMatches(type, prompt) ==
    \E kw \in GroupKeywords(type) : KeywordInPrompt(kw, prompt)

\* an analysis that looks for added objects first
IfOrderAddFirst == <<"add", "beautify", "remove", "sharpen">>

\* the order of the if statements
IfOrder == <<"beautify", "remove", "sharpen", "add">>

RECURSIVE FirstMatch(_, _)
FirstMatch(order, prompt) ==
    IF order = << >> THEN "general"
    ELSE IF GroupMatches(Head(order), prompt) THEN Head(order)
    ELSE FirstMatch(Tail(order), prompt)

_analyze_prompt(prompt) == FirstMatch(IfOrder, prompt)

\* edit_type = self._analyze_prompt(prompt)
AnalyzePrompt ==
    /\ pp_type = NoType
    /\ pp_type' = _analyze_prompt(pp_prompt)
    /\ UNCHANGED <<pp_prompt, orchVars, emVars, regVars, chatVars, saVars, pollVars, goVars, raVars>>

InitPrompt ==
    /\ OrchOff
    /\ EMIdle
    /\ RegIdle
    /\ ChatIdle
    /\ SAIdle
    /\ PollIdle
    /\ GOIdle
    /\ RAIdle
    /\ pp_prompt \in Prompts
    /\ pp_type = NoType

NextPrompt == AnalyzePrompt

SpecPrompt == InitPrompt /\ [][NextPrompt]_vars

\* the priority of an editing type: 1 is the highest
Priority(type) ==
    CASE type = "beautify" -> 1
      [] type = "remove" -> 2
      [] type = "sharpen" -> 3
      [] type = "add" -> 4
      [] OTHER -> 5

\* C34: _analyze_prompt returns the editing type of the matching keyword
\* group of highest priority in the order beautify, remove, sharpen, add,
\* and general exactly when no group matches; "add makeup" is beautify
C34_FirstMatchingGroupWins ==
    pp_type # NoType =>
        LET matching == { t \in {"beautify", "remove", "sharpen", "add"} :
                             GroupMatches(t, pp_prompt) }
        IN  /\ matching = {} <=> pp_type = "general"
            /\ matching # {} =>
                  /\ pp_type \in matching
                  /\ \A t \in matching : Priority(pp_type) <= Priority(t)
            /\ pp_prompt = <<"add", "makeup">> => pp_type = "beautify"

\* the prompt "add makeup", matched by the groups beautify and add
C34_Witness ==
    /\ pp_prompt = <<"add", "makeup">>
    /\ GroupMatches("add", pp_prompt)
    /\ GroupMatches("beautify", pp_prompt)
    /\ pp_type = "beautify"

---------------------------------------------------------------------------
\* backend/agents/orchestrator.py, get_orchestrator

MaxGetCalls == 6

\* SimpleOrchestrator(use_llm_analyzer=b)
SimpleOrchestrator(b) ==
    [agents |-> Agents(IF b THEN "simple_llm" ELSE "simple")]

\* get_orchestrator(use_llm_analyzer=b)
GetOrchestrator(b) ==
    /\ Len(go_calls) < MaxGetCalls
    /\ go_calls' = Append(go_calls, b)
    /\ _orchestrator_instance' =
          IF _orchestrator_instance = NoInstance
          THEN SimpleOrchestrator(b)
          ELSE _orchestrator_instance
    /\ go_returned' = _orchestrator_instance'
    /\ UNCHANGED <<orchVars, emVars, regVars, chatVars, saVars, pollVars, ppVars, raVars>>

InitGet ==
    /\ OrchOff
    /\ EMIdle
    /\ RegIdle
    /\ ChatIdle
    /\ SAIdle
    /\ PollIdle
    /\ PPIdle
    /\ GOIdle
    /\ RAIdle

NextGet == \E b \in BOOLEAN : GetOrchestrator(b)

SpecGet == InitGet /\ [][NextGet]_vars

\* the orchestrator has the analyzer stage
HasAnalyzer(o) ==
    \E i \in 1..Len(o.agents) : o.agents[i] = "Task Analyzer"

\* C39: after any sequence of calls of get_orchestrator, the orchestrator
\* returned has the analyzer stage if and only if the most recent call
\* passed use_llm_analyzer = True
C39_ConfiguredByLastCall ==
    go_calls # << >> =>
        (HasAnalyzer(go_returned) <=> go_calls[Len(go_calls)])

---------------------------------------------------------------------------
\* backend/core/utils.py, retry_async

MaxRetryArg == 4

\* the delay argument, in tenths of a second
Delays == {5, 10}

\* a sleep after every failed attempt
SleepAfterEveryFailure(attempt, max_retries) == attempt < max_retries

\* utils.py, line 58: if attempt < max_retries - 1
SleepBeforeNext(attempt, max_retries) == attempt < max_retries - 1

\* the call of the wrapper: max_retries and delay of the decorator, and the
\* environment: the wrapped function raises on its first fails invocations,
\* each time a new exception, and returns afterwards
RetryCalls ==
    { [pc |-> "loop", max_retries |-> n, delay |-> d, fails |-> f,
       attempt |-> 0, events |-> << >>, last_exception |-> 0,
       returned |-> 0, raised |-> 0] :
         n \in 1..MaxRetryArg, d \in Delays, f \in 0..(MaxRetryArg + 1) }

Call(k) == [kind |-> "call", arg |-> k]

Sleep(t) == [kind |-> "sleep", arg |-> t]

\* one iteration of for attempt in range(max_retries), up to the sleep
RetryAttempt ==
    /\ ra.pc = "loop"
    /\ ra.attempt < ra.max_retries
    /\ LET k == ra.attempt + 1
           called == [ra EXCEPT !.events = Append(@, Call(k))]
       IN  ra' = IF k > ra.fails
                 THEN [called EXCEPT !.pc = "returned", !.returned = k]
                 ELSE IF SleepBeforeNext(ra.attempt, ra.max_retries)
                 THEN [called EXCEPT !.pc = "sleep", !.last_exception = k]
                 ELSE [called EXCEPT !.attempt = k, !.last_exception = k]
    /\ UNCHANGED <<orchVars, emVars, regVars, chatVars, saVars, pollVars, ppVars, goVars>>

\* await asyncio.sleep(delay * (attempt + 1)), then continue
RetrySleep ==
    /\ ra.pc = "sleep"
    /\ ra' = [ra EXCEPT !.pc = "loop",
                         !.events = Append(@, Sleep(ra.delay * (ra.attempt + 1))),
                         !.attempt = ra.attempt + 1]
    /\ UNCHANGED <<orchVars, emVars, regVars, chatVars, saVars, pollVars, ppVars, goVars>>

\* raise last_exception, after the loop
RetryRaise ==
    /\ ra.pc = "loop"
    /\ ra.attempt >= ra.max_retries
    /\ ra' = [ra EXCEPT !.pc = "raised", !.raised = ra.last_exception]
    /\ UNCHANGED <<orchVars, emVars, regVars, chatVars, saVars, pollVars, ppVars, goVars>>

InitRetry ==
    /\ OrchOff
    /\ EMIdle
    /\ RegIdle
    /\ ChatIdle
    /\ SAIdle
    /\ PollIdle
    /\ PPIdle
    /\ GOIdle
    /\ ra \in RetryCalls

NextRetry ==
    \/ RetryAttempt
    \/ RetrySleep
    \/ RetryRaise

SpecRetry == InitRetry /\ [][NextRetry]_vars

\* the invocations of the wrapped function so far
Invocations == { i \in 1..Len(ra.events) : ra.events[i].kind = "call" }

\* C40: a function wrapped with max_retries = n >= 1 is invoked at most n
\* times; the wrapper returns the result of the first invocation that
\* succeeds and invokes nothing after it; it sleeps between two consecutive
\* invocations and never after the last one; when all n invocations raise
\* it raises the exception of the last one
C40_RetryAsync ==
    ra # NoRetry =>
        /\ Cardinality(Invocations) <= ra.max_retries
        /\ \A i \in 1..Len(ra.events) :
              ra.events[i].kind = (IF i % 2 = 1 THEN "call" ELSE "sleep")
        /\ \A i \in Invocations : ra.events[i].arg <= ra.fails + 1
        /\ ra.pc \in {"returned", "raised"} =>
              ra.events[Len(ra.events)].kind = "call"
        /\ ra.pc = "returned" =>
              /\ ra.returned = ra.fails + 1
              /\ ra.events[Len(ra.events)] = Call(ra.returned)
        /\ ra.pc = "raised" =>
              /\ Cardinality(Invocations) = ra.max_retries
              /\ ra.fails >= ra.max_retries
              /\ ra.raised = ra.max_retries

\* three attempts, all of them raising: two sleeps, the third exception raised
C40_Witness ==
    /\ ra # NoRetry
    /\ ra.pc = "raised"
    /\ ra.max_retries = 3
    /\ ra.raised = 3
    /\ ra.events = <<Call(1), Sleep(ra.delay), Call(2), Sleep(2 * ra.delay), Call(3)>>

====
